---------------------------- MODULE Spec2Model ----------------------------
(***************************************************************************)
(* hexy-app: extraction of a colour palette from an image.                 *)
(*                                                                         *)
(* The module models the hook useColorExtractor (client/src/contexts/      *)
(* ThemeContext.tsx, lines 62-545): the promise returned by extractColors, *)
(* the hook state isLoading / error, and the synchronous pipeline that the *)
(* image's load handler runs (sampling, background removal, quantisation,  *)
(* k-means++ in Lab, merging by CIEDE2000, noise floor, selection).        *)
(*                                                                         *)
(* Numbers.  The source computes in IEEE doubles; here every real quantity *)
(* is a fixed-point integer and every product is arranged to stay inside   *)
(* a signed 32-bit word:                                                   *)
(*    Lab coordinates, chroma, Delta-E      hundredths          (x 100)    *)
(*    hue angles                            millidegrees        (x 1000)   *)
(*    linear light, XYZ, weights, sin/cos   millionths          (x SC)     *)
(* Rounding is to nearest and symmetric in the sign, as IEEE rounding is.  *)
(* Against the double computation rgbToLab is within 0.02 and deltaE00     *)
(* within 0.03 over the sRGB gamut.                                        *)
(***************************************************************************)
EXTENDS Integers, Sequences, FiniteSets, TLC

-----------------------------------------------------------------------------
(* Order of evaluation                                                     *)

\* s itself, with every element computed (a sequence given by a rule is otherwise
\* recomputed at each access)
AsSeq(s) == s \o << >>

\* F applied to x, with x computed once and before F is entered
Bind(x, F(_)) == CHOOSE y \in { F(v) : v \in { x } } : TRUE

\* Array.prototype.map
Map(s, F(_)) == Bind(s, LAMBDA v : AsSeq([ i \in 1 .. Len(v) |-> F(v[i]) ]))

-----------------------------------------------------------------------------
(* Fixed-point arithmetic                                                  *)

SC == 1000 * 1000

Abs(x) == IF x < 0 THEN -x ELSE x

Sgn(x) == IF x < 0 THEN -1 ELSE IF x > 0 THEN 1 ELSE 0

Min2(a, b) == IF a <= b THEN a ELSE b

Max2(a, b) == IF a >= b THEN a ELSE b

\* a / d rounded to nearest, a >= 0, d > 0
RDivN[a \in Int, d \in Int] == (a + d \div 2) \div d

\* a / d rounded to nearest, half away from zero
RDiv[a \in Int, d \in Int] == Sgn(a) * RDivN[Abs(a), d]

\* a * b / d rounded, a, b >= 0 and a * d below 2^31
MulDivN[a \in Int, b \in Int, d \in Int] == a * (b \div d) + RDivN[a * (b % d), d]

MulDiv[a \in Int, b \in Int, d \in Int] == Sgn(a) * Sgn(b) * MulDivN[Abs(a), Abs(b), d]

\* a * b / SC rounded, a, b >= 0
Mul6N[a \in Int, b \in Int] == RDivN[a * (b \div 1000), 1000] + RDivN[a * (b % 1000), SC]

Mul6[a \in Int, b \in Int] == Sgn(a) * Sgn(b) * Mul6N[Abs(a), Abs(b)]

\* a * SC / b rounded, a >= 0, b > 0, by long division in base 1000
Div6N[a \in Int, b \in Int] ==
    LET q0 == a \div b
        r0 == a % b
        q1 == (r0 * 1000) \div b
        r1 == (r0 * 1000) % b
        q2 == RDivN[r1 * 1000, b]
    IN  q0 * SC + q1 * 1000 + q2

Div6[a \in Int, b \in Int] == Sgn(a) * Sgn(b) * Div6N[Abs(a), Abs(b)]

\* a * (c7 / 10^7) rounded, a >= 0: multiplication by a 7-decimal literal
MulCoef[a \in Int, c7 \in Int] ==
    RDivN[a * (c7 \div 10000), 1000]
    + RDivN[a * ((c7 \div 10) % 1000), SC]
    + RDivN[a * (c7 % 10), 10 * SC]

NewtonSqrt[n \in Int, x \in Int] ==
    LET y == (x + n \div x) \div 2
    IN  IF y < x THEN NewtonSqrt[n, y] ELSE x

\* Math.sqrt on integers: floor of the square root
ISqrt[n \in Int] == IF n < 2 THEN n ELSE NewtonSqrt[n, Min2(n, 46340)]

\* the square root of n rounded to nearest, n below 2^29
RSqrt[n \in Int] == RDivN[ISqrt[4 * n], 2]

NewtonSqrt6[v \in Int, y \in Int, fuel \in Int] ==
    LET y2 == RDivN[y + Div6N[v, y], 2]
    IN  IF fuel = 0 \/ y2 = y \/ y2 = 0 THEN y ELSE NewtonSqrt6[v, y2, fuel - 1]

\* Math.sqrt at scale SC, 0 <= v <= 2 * SC
Sqrt6[v \in Int] == IF v = 0 THEN 0 ELSE NewtonSqrt6[v, SC, 60]

NewtonCbrt6[t \in Int, y \in Int, fuel \in Int] ==
    LET y2 == RDivN[2 * y + Div6N[Div6N[t, y], y], 3]
    IN  IF fuel = 0 \/ y2 = y THEN y ELSE NewtonCbrt6[t, y2, fuel - 1]

\* Math.cbrt at scale SC, for 0.008 < t < 1.2
Cbrt6[t \in Int] == NewtonCbrt6[t, SC, 10]

\* millidegrees to radians at scale SC (pi / 180 = 0.0174532925)
Rad[md \in Int] == MulCoef[md, 174532925]

\* Math.cos on [0, pi/4], radians at scale SC (Taylor, Horner form)
CosSeries[x \in Int] ==
    LET x2 == Mul6N[x, x]
        t1 == SC - RDivN[x2, 56]
        t2 == SC - RDivN[Mul6N[x2, t1], 30]
        t3 == SC - RDivN[Mul6N[x2, t2], 12]
    IN  SC - RDivN[Mul6N[x2, t3], 2]

\* Math.sin on [0, pi/4]
SinSeries[x \in Int] ==
    LET x2 == Mul6N[x, x]
        t1 == SC - RDivN[x2, 72]
        t2 == SC - RDivN[Mul6N[x2, t1], 42]
        t3 == SC - RDivN[Mul6N[x2, t2], 20]
        t4 == SC - RDivN[Mul6N[x2, t3], 6]
    IN  Mul6N[x, t4]

CosQ[md \in Int] == IF md <= 45000 THEN CosSeries[Rad[md]] ELSE SinSeries[Rad[90000 - md]]

\* Math.cos(toRad(md / 1000)) at scale SC, any integer md
\* cos on [0, 180] degrees: cos(180 - m) = -cos(m)
CosHalf[m \in Int] == (IF m <= 90000 THEN 1 ELSE -1) * CosQ[Min2(m, 180000 - m)]

\* cos on [0, 360) degrees: cos(360 - m) = cos(m)
CosTurn[m \in Int] == CosHalf[Min2(m, 360000 - m)]

CosDeg[md \in Int] == CosTurn[Abs(md) % 360000]

\* Math.sin(toRad(md / 1000)) at scale SC
SinDeg[md \in Int] == Sgn(md) * CosDeg[Abs(md) - 90000]

\* atan(c) for c = 0, 1/4, 1/2, 3/4, 1 at scale SC
AtanKnot[k \in Int] == <<0, 244979, 463648, 643501, 785398>>[k + 1]

\* atan(u) for |u| <= 1/8 (Taylor)
AtanSeries[u \in Int] ==
    LET au == Abs(u)
        u2 == Mul6N[au, au]
        t1 == RDivN[SC, 5] - RDivN[u2, 7]
        t2 == RDivN[SC, 3] - Mul6N[u2, t1]
        t3 == SC - Mul6N[u2, t2]
    IN  Sgn(u) * Mul6N[au, t3]

\* atan(t) for 0 <= t <= 1: atan(c) + atan((t - c) / (1 + t c)), c the nearest knot
Atan[t \in Int] ==
    LET k == RDivN[t, 250000]
        c == 250000 * k
        u == Div6[t - c, SC + Mul6N[t, c]]
    IN  AtanKnot[k] + AtanSeries[u]

\* atan(mn / mx) in millidegrees, 0 <= mn <= mx, mx > 0 (180 / pi / 1000 = 0.0572958)
AtanDeg[mn \in Int, mx \in Int] == MulCoef[Atan[Div6N[mn, mx]], 572958]

\* atan(ay / ax) in millidegrees, in [0, 90000], for ax, ay >= 0 not both 0
AtanQuadrant[ay \in Int, ax \in Int] ==
    (IF ay <= ax THEN 0 ELSE 90000)
    + (IF ay <= ax THEN 1 ELSE -1) * AtanDeg[Min2(ay, ax), Max2(ay, ax)]

\* Math.atan2(y, x) * 180 / Math.PI in millidegrees, in (-180000, 180000]
Atan2Deg[y \in Int, x \in Int] ==
    IF x = 0 /\ y = 0 THEN 0
    ELSE Sgn(2 * Sgn(y) + 1)
         * ((IF x < 0 THEN 180000 ELSE 0)
            + (IF x < 0 THEN -1 ELSE 1) * AtanQuadrant[Abs(y), Abs(x)])

\* exp(-n) and exp(-k / 8) at scale SC
ExpWhole[n \in Int] ==
    <<1000000, 367879, 135335, 49787, 18316, 6738, 2479, 912, 335, 123, 45, 17, 6, 2, 1,
      0, 0>>[n + 1]

ExpEighth[k \in Int] == <<1000000, 882497, 778801, 687289, 606531, 535261, 472367, 416862>>[k + 1]

\* exp(-f) for 0 <= f < 1/8 (Taylor, Horner form)
ExpSeries[f \in Int] ==
    SC - Mul6N[f, SC - RDivN[Mul6N[f, SC - RDivN[Mul6N[f, SC - RDivN[f, 4]], 3]], 2]]

\* Math.exp(-z) at scale SC, 0 <= z < 16 at scale SC: z = n + k / 8 + f
ExpNeg[z \in Int] ==
    Mul6N[Mul6N[ExpWhole[z \div SC], ExpEighth[(z % SC) \div 125000]],
          ExpSeries[z % 125000]]


-----------------------------------------------------------------------------
(* Colour conversions and metrics (sRGB, D65)                              *)

\* Math.pow((c / 255 + 0.055) / 1.055, 2.4) at scale SC, for c = 0 .. 256
Pow24[c \in Int] ==
    <<
       834, 984, 1148, 1328, 1523, 1733, 1960, 2203,
       2463, 2740, 3035, 3347, 3677, 4025, 4391, 4777,
       5182, 5605, 6049, 6512, 6995, 7499, 8023, 8568,
       9134, 9721, 10330, 10960, 11612, 12286, 12983, 13702,
       14444, 15209, 15996, 16807, 17642, 18500, 19382, 20289,
       21219, 22174, 23153, 24158, 25187, 26241, 27321, 28426,
       29557, 30713, 31896, 33105, 34340, 35601, 36889, 38204,
       39546, 40915, 42311, 43735, 45186, 46665, 48172, 49707,
       51269, 52861, 54480, 56128, 57805, 59511, 61246, 63010,
       64803, 66626, 68478, 70360, 72272, 74214, 76185, 78187,
       80220, 82283, 84376, 86500, 88656, 90842, 93059, 95307,
       97587, 99899, 102242, 104616, 107023, 109462, 111932, 114435,
       116971, 119538, 122139, 124772, 127438, 130136, 132868, 135633,
       138432, 141263, 144128, 147027, 149960, 152926, 155926, 158961,
       162029, 165132, 168269, 171441, 174647, 177888, 181164, 184475,
       187821, 191202, 194618, 198069, 201556, 205079, 208637, 212231,
       215861, 219526, 223228, 226966, 230740, 234551, 238398, 242281,
       246201, 250158, 254152, 258183, 262251, 266356, 270498, 274677,
       278894, 283149, 287441, 291771, 296138, 300544, 304987, 309469,
       313989, 318547, 323143, 327778, 332452, 337164, 341914, 346704,
       351533, 356400, 361307, 366253, 371238, 376262, 381326, 386429,
       391572, 396755, 401978, 407240, 412543, 417885, 423268, 428690,
       434154, 439657, 445201, 450786, 456411, 462077, 467784, 473531,
       479320, 485150, 491021, 496933, 502886, 508881, 514918, 520996,
       527115, 533276, 539479, 545724, 552011, 558340, 564712, 571125,
       577580, 584078, 590619, 597202, 603827, 610496, 617207, 623960,
       630757, 637597, 644480, 651406, 658375, 665387, 672443, 679542,
       686685, 693872, 701102, 708376, 715694, 723055, 730461, 737910,
       745404, 752942, 760525, 768151, 775822, 783538, 791298, 799103,
       806952, 814847, 822786, 830770, 838799, 846873, 854993, 863157,
       871367, 879622, 887923, 896269, 904661, 913099, 921582, 930111,
       938686, 947307, 955973, 964686, 973445, 982251, 991102, 1000000,
       1008944
    >>[c + 1]

\* function srgbToLinear: cs <= 0.04045 ? cs / 12.92 : pow((cs + 0.055) / 1.055, 2.4)
srgbToLinear[c \in Int] ==
    IF c * 100000 <= 4045 * 255
    THEN RDivN[c * 100 * SC, 329460]
    ELSE Pow24[c]

\* function rgbToXyz: the sRGB / D65 matrix
linearToXyz[rl \in Int, gl \in Int, bl \in Int] ==
    << MulCoef[rl, 4124564] + MulCoef[gl, 3575761] + MulCoef[bl, 1804375],
       MulCoef[rl, 2126729] + MulCoef[gl, 7151522] + MulCoef[bl, 721750],
       MulCoef[rl, 193339] + MulCoef[gl, 1191920] + MulCoef[bl, 9503041] >>

rgbToXyz(rgb) ==
    linearToXyz[srgbToLinear[rgb[1]], srgbToLinear[rgb[2]], srgbToLinear[rgb[3]]]

\* function xyzF: t > 216 / 24389 ? cbrt(t) : (841 / 108) t + 4 / 29
xyzF[t \in Int] ==
    IF t > (216 * SC) \div 24389
    THEN Cbrt6[t]
    ELSE MulCoef[t, 77870370] + 137931

\* function xyzToLab, white point Xn = 0.95047, Yn = 1, Zn = 1.08883; Lab in hundredths
\* [116 * fy - 16, 500 * (fx - fy), 200 * (fy - fz)]
fToLab[fx \in Int, fy \in Int, fz \in Int] ==
    << RDiv[116 * fy - 16 * SC, 10000], RDiv[fx - fy, 20], RDiv[fy - fz, 50] >>

xyzToLab(xyz) ==
    fToLab[xyzF[Div6N[xyz[1], 950470]], xyzF[Div6N[xyz[2], SC]],
           xyzF[Div6N[xyz[3], 1088830]]]

rgbToLab(rgb) == Bind(rgbToXyz(rgb), xyzToLab)

\* function euclideanLab, squared (in 1e-4 units): the source only compares
\* distances with each other and with 0.5
euclideanLabSq(a, b) ==
    (a[1] - b[1]) * (a[1] - b[1]) + (a[2] - b[2]) * (a[2] - b[2])
    + (a[3] - b[3]) * (a[3] - b[3])

\* Math.hypot of two Lab coordinates, in hundredths
Hyp[a \in Int, b \in Int] == RSqrt[a * a + b * b]

\* t^7 at scale SC, 0 <= t <= 1
Pow7[t \in Int] == Mul6N[Mul6N[Mul6N[Mul6N[t, t], Mul6N[t, t]], Mul6N[t, t]], t]

\* sqrt(p / (1 + p)) and sqrt(1 / (1 + p)) at scale SC
SqrtRatio[p \in Int] == Sqrt6[Div6N[p, SC + p]]

SqrtRatioInv[p \in Int] == Sqrt6[Div6N[SC, SC + p]]

\* Math.sqrt(Math.pow(c, 7) / (Math.pow(c, 7) + Math.pow(25, 7))) at scale SC, where
\* c = s / 200 (s is the sum of two chromas in hundredths)
SqrtPow7Ratio[s \in Int] ==
    IF s = 0 THEN 0
    ELSE IF s <= 5000 THEN SqrtRatio[Pow7[s * 200]]
    ELSE SqrtRatioInv[Pow7[Div6N[5000, s]]]

\* function hpF: hue angle in [0, 360), millidegrees
hpF[b \in Int, ap \in Int] == (Atan2Deg[b, ap] + 360000) % 360000

\* function dhpF
dhpF[h1p \in Int, h2p \in Int, C1p \in Int, C2p \in Int] ==
    IF C1p = 0 \/ C2p = 0 THEN 0
    ELSE IF h2p - h1p > 180000 THEN h2p - h1p - 360000
    ELSE IF h2p - h1p < -180000 THEN h2p - h1p + 360000
    ELSE h2p - h1p

\* function hpAvg, doubled: h1p + h2p (+ 360) without the division by 2
hpAvg2[h1p \in Int, h2p \in Int] ==
    IF Abs(h1p - h2p) > 180000 THEN h1p + h2p + 360000 ELSE h1p + h2p

\* deltaE00: const T, from twice the mean hue sH (avgHp = sH / 2)
weightT[sH \in Int] ==
    SC - RDiv[17 * CosDeg[sH \div 2 - 30000], 100]
       + RDiv[24 * CosDeg[sH], 100]
       + RDiv[32 * CosDeg[3 * (sH \div 2) + 6000], 100]
       - RDiv[20 * CosDeg[4 * (sH \div 2) - 63000], 100]

\* deltaE00: const Sl, from sL = L1 + L2 (avgLp = sL / 200)
weightSl[sL \in Int] ==
    SC + MulDivN[300, (sL - 10000) * (sL - 10000),
                 ISqrt[16 * (800000 + (sL - 10000) * (sL - 10000))]]

\* deltaE00: const Sc, from sCp = C1p + C2p (avgCp = sCp / 200)
weightSc[sCp \in Int] == SC + 225 * sCp

\* deltaE00: const Sh
weightSh[sCp \in Int, T \in Int] == SC + 75 * Mul6N[sCp, T]

\* deltaE00: 2 * dTheta in millidegrees, from x = (avgHp - 275) / 25 in thousandths
twoDTheta[x \in Int] == IF Abs(x) >= 4000 THEN 0 ELSE RDivN[3 * ExpNeg[x * x], 50]

\* deltaE00: const Rt = -Rc * sin(2 dTheta), Rc = 2 sqrt(avgCp^7 / (avgCp^7 + 25^7))
rotationRt[sCp \in Int, sH \in Int] ==
    -2 * Mul6[SqrtPow7Ratio[sCp], SinDeg[twoDTheta[RDiv[sH \div 2 - 275000, 25]]]]

\* deltaE00: const dHp
deltaHp[h1p \in Int, h2p \in Int, C1p \in Int, C2p \in Int] ==
    Mul6[2 * RSqrt[C1p * C2p], SinDeg[RDiv[dhpF[h1p, h2p, C1p, C2p], 2]]]

\* deltaE00: const dE, from the three weighted differences (hundredths) and Rt
\* (the quadratic form is positive definite, |Rt| < 2: the root is never NaN)
deltaRoot[xL \in Int, xC \in Int, xH \in Int, Rt \in Int] ==
    RSqrt[xL * xL + xC * xC + xH * xH + MulDiv[RDiv[Rt, 100], xC * xH, 10000]]

deltaWeighted[dLp \in Int, dCp \in Int, dHp \in Int, Sl \in Int, Sc \in Int, Sh \in Int, Rt \in Int] ==
    deltaRoot[RDiv[dLp * 10000, RDivN[Sl, 100]], RDiv[dCp * 10000, RDivN[Sc, 100]],
              RDiv[dHp * 10000, RDivN[Sh, 100]], Rt]

\* deltaE00 from L, C', h' of the two colours
deltaPolar[L1 \in Int, C1p \in Int, h1p \in Int, L2 \in Int, C2p \in Int, h2p \in Int] ==
    deltaWeighted[L2 - L1, C2p - C1p, deltaHp[h1p, h2p, C1p, C2p],
                  weightSl[L1 + L2], weightSc[C1p + C2p],
                  weightSh[C1p + C2p, weightT[hpAvg2[h1p, h2p]]],
                  rotationRt[C1p + C2p, hpAvg2[h1p, h2p]]]

\* deltaE00 from L, a', b of the two colours
deltaPrimed[L1 \in Int, a1p \in Int, b1 \in Int, L2 \in Int, a2p \in Int, b2 \in Int] ==
    deltaPolar[L1, Hyp[a1p, b1], hpF[b1, a1p], L2, Hyp[a2p, b2], hpF[b2, a2p]]

\* deltaE00: a1p = (1 + G) * a1, with G = 0.5 * (1 - r), r the root of the chroma ratio
deltaWithG[L1 \in Int, a1 \in Int, b1 \in Int, L2 \in Int, a2 \in Int, b2 \in Int, r \in Int] ==
    deltaPrimed[L1, Mul6[a1, SC + RDivN[SC - r, 2]], b1,
                L2, Mul6[a2, SC + RDivN[SC - r, 2]], b2]

\* deltaE00 with G taken from the first colour's chroma instead of the mean chroma
deltaE00FirstChroma(lab1, lab2) ==
    deltaWithG[lab1[1], lab1[2], lab1[3], lab2[1], lab2[2], lab2[3],
               SqrtPow7Ratio[2 * Hyp[lab1[2], lab1[3]]]]

\* function deltaE00 (CIEDE2000), Lab in hundredths, result in hundredths
deltaE00(lab1, lab2) ==
    deltaWithG[lab1[1], lab1[2], lab1[3], lab2[1], lab2[2], lab2[3],
               SqrtPow7Ratio[Hyp[lab1[2], lab1[3]] + Hyp[lab2[2], lab2[3]]]]

\* Number.prototype.toString(16) of an integer in 0 .. 255, as a sequence of characters
toString16(n) ==
    LET digit(d) == <<"0", "1", "2", "3", "4", "5", "6", "7", "8", "9",
                      "a", "b", "c", "d", "e", "f">>[d + 1]
    IN  IF n < 16 THEN << digit(n) >> ELSE << digit(n \div 16), digit(n % 16) >>

\* toHex inside rgbToHex: clamp to 0 .. 255, base 16, left-padded to two characters
toHex(n) ==
    LET h == toString16(Max2(0, Min2(255, n)))
    IN  IF Len(h) = 1 THEN <<"0">> \o h ELSE h

\* String.prototype.toUpperCase on the characters a hex string can hold
toUpperCase(s) ==
    [ i \in 1 .. Len(s) |->
        CASE s[i] = "a" -> "A" [] s[i] = "b" -> "B" [] s[i] = "c" -> "C"
          [] s[i] = "d" -> "D" [] s[i] = "e" -> "E" [] s[i] = "f" -> "F"
          [] OTHER -> s[i] ] \o << >>

\* function rgbToHex: the characters of "#RRGGBB"
rgbToHex(r, g, b) == toUpperCase(<<"#">> \o toHex(r) \o toHex(g) \o toHex(b))

-----------------------------------------------------------------------------
(* Program constants                                                       *)

\* const maxSize = 600
maxSize == 600

\* skipAlphaBelow: 160
skipAlphaBelow == 160

\* deduplicateRgb(withNoBg, 8)
quantStep == 8

\* kMeansLab(..., initialK, 20)
maxIterations == 20

\* mergeDeltaE00: 10, in hundredths
mergeDeltaE00 == 1000

\* minPercent: 1.5, in thousandths of the total
minPercent == 15

-----------------------------------------------------------------------------
(* Sequences                                                               *)

SeqRange(s) == { s[i] : i \in 1 .. Len(s) }

MinOfSet(S) == CHOOSE x \in S : \A y \in S : x <= y

MaxOfSet(S) == CHOOSE x \in S : \A y \in S : x >= y

\* the indices at which an element of s occurs for the first time, ascending
FirstOccurrences(s) ==
    SelectSeq(AsSeq([ i \in 1 .. Len(s) |-> i ]),
              LAMBDA i : \A j \in 1 .. i - 1 : s[j] # s[i])

\* the distinct elements of s, in order of first occurrence
Distinct(s) == Bind(s, LAMBDA v : Map(FirstOccurrences(v), LAMBDA n : v[n]))

\* s[lo][c] + ... + s[hi][c], by halving
RECURSIVE SumRange(_, _, _, _)
SumRange(s, c, lo, hi) ==
    IF lo > hi THEN 0
    ELSE IF lo = hi THEN s[lo][c]
    ELSE LET mid == (lo + hi) \div 2
         IN  SumRange(s, c, lo, mid) + SumRange(s, c, mid + 1, hi)

\* coordinate-wise mean of a non-empty sequence of Lab triples
MeanLab(labs) ==
    Bind(labs, LAMBDA v : << RDiv[SumRange(v, 1, 1, Len(v)), Len(v)],
                             RDiv[SumRange(v, 2, 1, Len(v)), Len(v)],
                             RDiv[SumRange(v, 3, 1, Len(v)), Len(v)] >>)

-----------------------------------------------------------------------------
(* Sampling and background handling                                        *)

\* data[(y * width + x) * 4 ..]: pixel (x, y) of the RGBA buffer, as <<r, g, b, a>>
PixelAt(img, x, y) == img.data[y * img.width + x + 1]

\* the comparisons as ">=": a count on a threshold takes the larger stride
chooseStrideAtLeast(width, height) ==
    LET pixels == width * height
    IN  IF pixels >= 800000 THEN 6
        ELSE IF pixels >= 400000 THEN 4
        ELSE IF pixels >= 150000 THEN 3
        ELSE 2

chooseStride(width, height) ==
    LET pixels == width * height
    IN  IF pixels > 800000 THEN 6
        ELSE IF pixels > 400000 THEN 4
        ELSE IF pixels > 150000 THEN 3
        ELSE 2

\* the near-white test on all three channels: maxC > 250 && minC > 250
SampledAllAbove(p) ==
    /\ ~(p[4] < skipAlphaBelow)
    /\ ~(Min2(p[1], Min2(p[2], p[3])) > 250)
    /\ ~(Max2(p[1], Max2(p[2], p[3])) < 10)

\* the test of samplePixels' loop body: a visited pixel is pushed
Sampled(p) ==
    LET maxC == Max2(p[1], Max2(p[2], p[3]))
        minC == Min2(p[1], Min2(p[2], p[3]))
    IN  /\ ~(p[4] < skipAlphaBelow)
        /\ ~(maxC > 250 /\ minC > 245)
        /\ ~(maxC < 10 /\ minC < 10)

\* out.push([r, g, b]): a pushed pixel without its alpha
dropAlpha(pixels) == Map(pixels, LAMBDA p : << p[1], p[2], p[3] >>)

samplePixels(img, optStride) ==
    LET stride == Max2(1, optStride)
        nx == (img.width + stride - 1) \div stride
        ny == (img.height + stride - 1) \div stride
        visited == AsSeq([ i \in 1 .. nx * ny |->
                       PixelAt(img, ((i - 1) % nx) * stride, ((i - 1) \div nx) * stride) ])
    IN  dropAlpha(SelectSeq(visited, Sampled))

\* parseInt(n, 10) of the decimal text of a number: the digits before any "."
parseInt10(n) == n

\* counts.get(key): the number of pixels of this colour
countOf(pixels, key) == Cardinality({ i \in 1 .. Len(pixels) : pixels[i] = key })

\* the loop over counts, keys in insertion order: the first key of the greatest count
bestKey(pixels, keys) ==
    Bind(MaxOfSet({ countOf(pixels, keys[j]) : j \in 1 .. Len(keys) }),
         LAMBDA bestCount :
             keys[MinOfSet({ j \in 1 .. Len(keys) : countOf(pixels, keys[j]) = bestCount })])

\* mostFrequentRgb of a non-empty list
mostFrequentOf(pixels) ==
    Bind(Distinct(pixels), LAMBDA keys : Map(bestKey(pixels, keys), parseInt10))

\* function mostFrequentRgb: the first-inserted key of the greatest count
mostFrequentRgb(pixels) ==
    Bind(pixels, LAMBDA v : IF Len(v) = 0 THEN <<0, 0, 0>> ELSE mostFrequentOf(v))

NoBackground == << >>

\* the order in which detectBackground pushes border pixels
BorderPixels(img) ==
    LET w == img.width
        h == img.height
        rows == [ j \in 1 .. 2 * w |->
                    PixelAt(img, (j - 1) \div 2, IF j % 2 = 1 THEN 0 ELSE h - 1) ]
        cols == [ j \in 1 .. 2 * h |->
                    PixelAt(img, IF j % 2 = 1 THEN 0 ELSE w - 1, (j - 1) \div 2) ]
    IN  dropAlpha(SelectSeq(rows \o cols, LAMBDA p : ~(p[4] < 200)))

\* detectBackground: const within, the border colours within deltaE00 6 of the centroid
within(labs, centroid) ==
    Cardinality({ i \in 1 .. Len(labs) : deltaE00(labs[i], centroid) <= 600 })

\* detectBackground: if (within / labs.length >= 0.6) return mostFrequentRgb(border)
uniformBorder(border, labs) ==
    IF Bind(MeanLab(labs), LAMBDA centroid : within(labs, centroid)) * 10 >= 6 * Len(labs)
    THEN mostFrequentRgb(border)
    ELSE NoBackground

\* detectBackground from the pushed border pixels
borderBackground(border) ==
    IF Len(border) < 20 THEN NoBackground
    ELSE Bind(Map(border, rgbToLab), LAMBDA labs : uniformBorder(border, labs))

detectBackground(img) == Bind(BorderPixels(img), borderBackground)

\* sampled.filter(p => deltaE00(rgbToLab(p), rgbToLab(bg)) > 8) when bg is not null
farFrom(sampledPx, bgLab) ==
    SelectSeq(sampledPx,
              LAMBDA p : Bind(rgbToLab(p), LAMBDA lab : deltaE00(lab, bgLab)) > 800)

\* the filter left out: every sample is kept
keepAll(sampledPx, bgc) == sampledPx

removeBackground(sampledPx, bgc) ==
    IF bgc = NoBackground THEN sampledPx
    ELSE Bind(rgbToLab(bgc), LAMBDA bgLab : farFrom(sampledPx, bgLab))

clamp(n) == Max2(0, Min2(255, n))

\* Math.floor in the place of Math.round
quantizeDown(c, step) == (clamp(c) \div step) * step

\* Math.round(clamp(c) / step) * step
quantize(c, step) == ((2 * clamp(c) + step) \div (2 * step)) * step

\* deduplicateRgb: [rr, gg, bb] of one pixel
quantizeRgb(p, step) == << quantize(p[1], step), quantize(p[2], step), quantize(p[3], step) >>

\* the quantized triples in order of first occurrence (out.push([rr, gg, bb]))
deduplicateRgb(pixels, step) == Distinct(Map(pixels, LAMBDA p : quantizeRgb(p, step)))

\* (rgb) => ({ rgb, lab: rgbToLab(rgb) })
labPoint(rgb) == [ rgb |-> rgb, lab |-> rgbToLab(rgb) ]

\* labPoints = dedup.map(...)
withLab(dedup) == Map(dedup, labPoint)

\* the tests left out: nothing is ever thrown
isEmptyNever(list) == FALSE

\* sampled.length === 0, dedup.length === 0: the tests before the two throws
isEmpty(list) == Len(list) = 0

-----------------------------------------------------------------------------
(* k-means in Lab space                                                    *)

\* Math.floor in place of Math.round
initialKFloor(uniqueCount) == Max2(4, Min2(16, ISqrt[uniqueCount]))

\* Math.max(4, Math.min(16, Math.round(Math.sqrt(uniqueCount))))
initialK(uniqueCount) == Max2(4, Min2(16, RSqrt[uniqueCount]))

\* the comparison "d <= bestDist": highest index of the least distance
nearestLast(p, cs) ==
    Bind(MinOfSet({ euclideanLabSq(p, cs[i]) : i \in 1 .. Len(cs) }),
         LAMBDA least : MaxOfSet({ i \in 1 .. Len(cs) : euclideanLabSq(p, cs[i]) = least }))

\* the loop "if (d < bestDist) { bestDist = d; best = i }": lowest index of the least distance
nearest(p, cs) ==
    Bind(MinOfSet({ euclideanLabSq(p, cs[i]) : i \in 1 .. Len(cs) }),
         LAMBDA least : MinOfSet({ i \in 1 .. Len(cs) : euclideanLabSq(p, cs[i]) = least }))

\* distances[i] * distances[i] of the k-means++ loop
seedWeight(p, cs) == MinOfSet({ euclideanLabSq(p, cs[i]) : i \in 1 .. Len(cs) })

\* the loop with "if (r < 0)": a point is chosen only once r has gone below 0, and none
\* when every weight is 0
seedChoicesBelow(labs, cs) == { i \in 1 .. Len(labs) : seedWeight(labs[i], cs) > 0 }

\* the indices the loop "r -= d * d; if (r <= 0) push" can stop at, over all values
\* of Math.random() in [0, 1): index 1 when r starts at 0, else any index of
\* positive weight. A draw so near 1 that rounding leaves r above 0 after the last
\* point pushes nothing, and the while loop draws again with no variable changed
seedChoices(labs, cs) ==
    {1} \cup { i \in 1 .. Len(labs) : seedWeight(labs[i], cs) > 0 }

\* the new centroid c: the mean of the points nearest to it, itself when there is none
movedCentroid(labs, cs, c) ==
    Bind(SelectSeq(labs, LAMBDA p : nearest(p, cs) = c),
         LAMBDA members : IF Len(members) = 0 THEN cs[c] ELSE MeanLab(members))

\* moved is set by every cluster, the empty ones too
lloydMovedAny(labs, cs, next) ==
    \E c \in 1 .. Len(cs) : euclideanLabSq(next[c], cs[c]) >= 0

\* moved: a centroid with points went further than 0.5
lloydMoved(labs, cs, next) ==
    \E c \in 1 .. Len(cs) :
        /\ \E i \in 1 .. Len(labs) : nearest(labs[i], cs) = c
        /\ euclideanLabSq(next[c], cs[c]) > 2500

\* one pass of the Lloyd loop: <<new centroids, moved>>
lloydPass(labs, cs) ==
    Bind(AsSeq([ c \in 1 .. Len(cs) |-> movedCentroid(labs, cs, c) ]),
         LAMBDA next : << next, lloydMoved(labs, cs, next) >>)

\* the Lloyd loop of kMeansLab from iteration iter on: << centroids, iter >> at its end
RECURSIVE lloydLoop(_, _, _, _)
lloydLoop(labs, cs, n, maxIter) ==
    IF n >= maxIter THEN << cs, n >>
    ELSE Bind(lloydPass(labs, cs),
              LAMBDA pass : IF pass[2] THEN lloydLoop(labs, pass[1], n + 1, maxIter)
                            ELSE << pass[1], n + 1 >>)

assignPointsToCentroids(labPts, cs) ==
    LET clusters == AsSeq([ c \in 1 .. Len(cs) |->
                        [ centroid |-> cs[c],
                          points |-> SelectSeq(labPts, LAMBDA p : nearest(p.lab, cs) = c) ] ])
    IN  SelectSeq(clusters, LAMBDA c : Len(c.points) > 0)

\* 0 for the empty set, else the least element
MinOrZero(S) == IF S = {} THEN 0 ELSE MinOfSet(S)

\* the inner loop without its break: the last merged cluster nearer than the threshold
mergedIntoLast(merged, c, threshold) ==
    IF \E j \in 1 .. Len(merged) : deltaE00(c.centroid, merged[j].centroid) < threshold
    THEN MaxOfSet({ j \in 1 .. Len(merged) :
                      deltaE00(c.centroid, merged[j].centroid) < threshold })
    ELSE 0

\* the inner loop of the merge pass: the index in merged of the first cluster whose
\* centroid is nearer to c's than the threshold, 0 when there is none (mergedInto null)
mergedInto(merged, c, threshold) ==
    MinOrZero({ j \in 1 .. Len(merged) : deltaE00(c.centroid, merged[j].centroid) < threshold })

\* the cluster of these points, its centroid their mean in Lab
withMeanCentroid(points) ==
    Bind(points, LAMBDA v : [ centroid |-> MeanLab(Map(v, LAMBDA p : p.lab)),
                              points |-> v ])

\* the body of the merge pass for cluster c, j the index found by the inner loop
place(merged, c, j) ==
    IF j = 0
    THEN Append(merged, [ centroid |-> c.centroid, points |-> c.points ])
    ELSE [ merged EXCEPT ![j] = withMeanCentroid(merged[j].points \o c.points) ]

\* the body of the merge pass for cluster c
placed(merged, c, threshold) ==
    Bind(mergedInto(merged, c, threshold), LAMBDA j : place(merged, c, j))

\* the merge pass of mergeAndFilterClusters, clusters n .. Len(clusters) still to place
RECURSIVE mergePass(_, _, _, _)
mergePass(clusters, n, merged, threshold) ==
    IF n > Len(clusters) THEN merged
    ELSE Bind(placed(merged, clusters[n], threshold),
              LAMBDA m : mergePass(clusters, n + 1, m, threshold))

RECURSIVE totalPoints(_, _)
totalPoints(clusters, n) ==
    IF n = 0 THEN 0 ELSE Len(clusters[n].points) + totalPoints(clusters, n - 1)

\* the threshold rounded up: a cluster must hold the full share
minCountCeil(total, percent10) == Max2(1, (percent10 * total + 999) \div 1000)

\* the threshold without the division by 100: Math.floor(opts.minPercent * total)
minCountNoPercent(total, percent10) == Max2(1, (percent10 * total) \div 10)

\* Math.max(1, Math.floor((opts.minPercent / 100) * total))
minCount(total, percent10) == Max2(1, (percent10 * total) \div 1000)

\* merged.filter((c) => c.points.length >= minCount)
atLeast(merged, least) == SelectSeq(merged, LAMBDA c : Len(c.points) >= least)

filterByShare(merged, percent10) ==
    atLeast(merged, minCount(totalPoints(merged, Len(merged)), percent10))

mergeAndFilterClusters(clusters, threshold, percent10) ==
    IF Len(clusters) <= 1 THEN clusters
    ELSE Bind(mergePass(clusters, 1, << >>, threshold),
              LAMBDA merged : filterByShare(merged, percent10))

\* the comparator reversed, (a, b) => a.points.length - b.points.length: by size ascending
sortBySizeAscending(clusters) ==
    LET n == Len(clusters)
        before(i, j) == \/ Len(clusters[i].points) < Len(clusters[j].points)
                        \/ /\ Len(clusters[i].points) = Len(clusters[j].points)
                           /\ i < j
        rank(i) == Cardinality({ j \in 1 .. n : before(j, i) }) + 1
    IN  AsSeq([ r \in 1 .. n |-> clusters[CHOOSE i \in 1 .. n : rank(i) = r] ])

\* Array.prototype.sort((a, b) => b.points.length - a.points.length): stable, by size descending
sortBySize(clusters) ==
    LET n == Len(clusters)
        before(i, j) == \/ Len(clusters[i].points) > Len(clusters[j].points)
                        \/ /\ Len(clusters[i].points) = Len(clusters[j].points)
                           /\ i < j
        rank(i) == Cardinality({ j \in 1 .. n : before(j, i) }) + 1
    IN  AsSeq([ r \in 1 .. n |-> clusters[CHOOSE i \in 1 .. n : rank(i) = r] ])

\* the map callback of extractColors: one palette entry of a cluster
colorOf(rgb) ==
    [ hex |-> rgbToHex(rgb[1], rgb[2], rgb[3]),
      rgb |-> [ r |-> rgb[1], g |-> rgb[2], b |-> rgb[3] ] ]

paletteEntry(c) == Bind(mostFrequentRgb(Map(c.points, LAMBDA p : p.rgb)), colorOf)

\* merged.map(...): the palette of the sorted clusters
palette(clusters) == Map(clusters, paletteEntry)

-----------------------------------------------------------------------------
(* Input files                                                             *)

\* a File the browser decodes to width x height RGBA pixels (row-major)
ImageFile(w, h, pixels) == [ kind |-> "image", width |-> w, height |-> h, data |-> pixels ]

\* a File the browser cannot decode: the image's error event fires
BrokenFile == [ kind |-> "broken", width |-> 0, height |-> 0, data |-> << >> ]

Opaque(r, g, b) == << r, g, b, 255 >>

\* pixel values of the model's images
Red     == Opaque(255, 0, 0)
Iris    == Opaque(100, 100, 200)
Violet  == Opaque(110, 100, 200)
Ghost   == << 10, 20, 30, 0 >>
White   == Opaque(255, 255, 255)

StripPixels == { Red, Iris, Violet, Ghost }

\* a 5 x 1 strip; the sampler (stride 2) visits x = 0, 2, 4
Strip(p1, p2, p3) == ImageFile(5, 1, << p1, p1, p2, p2, p3 >>)

\* a 5 x 5 image: a one-pixel frame around a 3 x 3 centre
Framed(frame, centre) ==
    ImageFile(5, 5, AsSeq([ i \in 1 .. 25 |->
        LET x == (i - 1) % 5
            y == (i - 1) \div 5
        IN  IF x = 0 \/ x = 4 \/ y = 0 \/ y = 4 THEN frame ELSE centre ]))

Strips == { Strip(p1, p2, p3) : p1 \in StripPixels, p2 \in StripPixels, p3 \in StripPixels }

Frames == { Framed(f, c) : f \in { White, Iris }, c \in { Red, Iris, Violet } }

Files == Strips \cup Frames \cup { BrokenFile }

\* an image of four quadrants of QuadrantSide x QuadrantSide opaque pixels: red and
\* green above blue and yellow
QuadrantSide == 50

QuadrantPixel(x, y) ==
    IF y < QuadrantSide
    THEN IF x < QuadrantSide THEN Opaque(255, 0, 0) ELSE Opaque(0, 255, 0)
    ELSE IF x < QuadrantSide THEN Opaque(0, 0, 255) ELSE Opaque(255, 255, 0)

QuadrantImage ==
    ImageFile(2 * QuadrantSide, 2 * QuadrantSide,
              AsSeq([ i \in 1 .. 4 * QuadrantSide * QuadrantSide |->
                        QuadrantPixel((i - 1) % (2 * QuadrantSide),
                                      (i - 1) \div (2 * QuadrantSide)) ]))

-----------------------------------------------------------------------------
(* Arguments of mergeAndFilterClusters applied on its own                  *)

\* at most MaxClusters clusters, the largest of MaxBlock points
MaxClusters == 3

MaxBlock == 132

BlockSizes == { 1, 2, MaxBlock \div 2, MaxBlock }

\* deduplicated colours as deduplicateRgb leaves them (multiples of the step): block b
\* holds BlockBases[b] plus steps on a 6 x 6 x 4 grid. Blocks 1 and 2 are two reds
\* nearer than mergeDeltaE00, all other pairs are far apart
BlockBases ==
    << <<200, 0, 32>>, <<200, 0, 0>>, <<0, 200, 0>>, <<0, 0, 200>>, <<200, 200, 0>>,
       <<200, 0, 200>> >>

BlockColor(b, j) ==
    << BlockBases[b][1] + quantStep * ((j - 1) % 6),
       BlockBases[b][2] + quantStep * (((j - 1) \div 6) % 6),
       BlockBases[b][3] + quantStep * ((j - 1) \div 36) >>

BlockPoints ==
    AsSeq([ b \in 1 .. Len(BlockBases) |->
              AsSeq([ j \in 1 .. MaxBlock |-> labPoint(BlockColor(b, j)) ]) ])

\* a cluster of the first n colours of block b, its centroid their mean
Block(b, n) == withMeanCentroid(SubSeq(BlockPoints[b], 1, n))

\* cluster i is of block i + 1, or of block 1 for the second cluster of a near pair
ClusterList(sizes, near) ==
    AsSeq([ i \in DOMAIN sizes |-> Block(IF near /\ i = 2 THEN 1 ELSE i + 1, sizes[i]) ])

ClusterLists ==
    { ClusterList(sizes, near) :
        sizes \in UNION { [ 1 .. n -> BlockSizes ] : n \in 1 .. MaxClusters },
        near \in BOOLEAN }

-----------------------------------------------------------------------------
(* State                                                                   *)

VARIABLES
    todo,       \* the files the user is still to select, in order
    calls,      \* the extractColors calls made so far: file, promise state, result
    isLoading,  \* useState(false)
    error,      \* useState<string | null>(null): << >> is null, << msg >> a message
    pc,         \* position of the load handler: idle, seed, lloyd, finish, done, failed
    active,     \* the call whose load handler ran last (0: none yet)
    sampled,    \* const sampled
    bg,         \* const bg
    withNoBg,   \* const withNoBg
    labPoints,  \* const labPoints: the deduplicated colours with their Lab values
    k,          \* const initialK
    centroids,  \* kMeansLab: centroids
    iter,       \* kMeansLab: iter
    clustered,  \* const clustered
    merged,     \* const merged, sorted
    results,    \* const results
    fnIn,       \* argument of a function applied on its own
    fnOut,      \* its result
    previewUrl, \* Home, useState(null): 0 is null, c the object URL of the file of call c
    colors,     \* Home, useState([]): the palette shown
    thumbs,     \* Home: the calls whose thumbnail Image is still to load
    history,    \* usePaletteHistory, useState([])
    stored,     \* localStorage under STORAGE_KEY: << >> is absent, << text >> a value
    now,        \* Date.now()
    ops,        \* the calls of savePalette, deletePalette and clearHistory so far
    writeFailed \* a localStorage write has thrown

hookVars == << isLoading, error >>
runVars == << pc, active, sampled, bg, withNoBg, labPoints, k, centroids, iter,
              clustered, merged, results >>
fnVars == << fnIn, fnOut >>
homeVars == << previewUrl, colors, thumbs >>
historyVars == << history, stored, now, ops, writeFailed >>
vars == << todo, calls, hookVars, runVars, fnVars, homeVars, historyVars >>

Null == << >>

\* Home and usePaletteHistory after the first render, nothing stored
NoHome ==
    /\ previewUrl = 0
    /\ colors = << >>
    /\ thumbs = {}
    /\ history = << >>
    /\ stored = << >>
    /\ now = 0
    /\ ops = 0
    /\ writeFailed = FALSE

NoRun ==
    /\ pc = "idle"
    /\ active = 0
    /\ sampled = << >>
    /\ bg = NoBackground
    /\ withNoBg = << >>
    /\ labPoints = << >>
    /\ k = 0
    /\ centroids = << >>
    /\ iter = 0
    /\ clustered = << >>
    /\ merged = << >>
    /\ results = << >>

Init ==
    /\ todo \in { << f >> : f \in Files }
    /\ calls = << >>
    /\ isLoading = FALSE
    /\ error = Null
    /\ NoRun
    /\ NoHome
    /\ fnIn = << >>
    /\ fnOut = << >>

\* the load handler is inside its synchronous part
Running == pc \in { "seed", "lloyd", "finish" }

-----------------------------------------------------------------------------
(* extractColors                                                           *)

\* extractColors(file) is called: setIsLoading(true); setError(null); the promise is
\* created and img.src set
extractColorsCalled ==
    /\ todo # << >>
    /\ ~Running
    /\ calls' = Append(calls, [ file |-> Head(todo), status |-> "pending",
                                settles |-> 0, result |-> << >> ])
    /\ todo' = Tail(todo)
    /\ isLoading' = TRUE
    /\ error' = Null
    /\ UNCHANGED << runVars, fnVars >>

\* extractColors(file) called on its own
StartCall == extractColorsCalled /\ UNCHANGED << homeVars, historyVars >>

\* the catch block without setIsLoading(false)
RejectedStillLoading(c, msg) ==
    /\ error' = << msg >>
    /\ isLoading' = isLoading
    /\ calls' = [ calls EXCEPT ![c].status = "rejected", ![c].settles = @ + 1 ]

\* reject(new Error(msg)) after setError(msg); setIsLoading(false)
Rejected(c, msg) ==
    /\ error' = << msg >>
    /\ isLoading' = FALSE
    /\ calls' = [ calls EXCEPT ![c].status = "rejected", ![c].settles = @ + 1 ]

\* img.onerror
ImgError(c) ==
    /\ calls[c].status = "pending"
    /\ calls[c].file.kind = "broken"
    /\ ~Running
    /\ Rejected(c, "Failed to load image")
    /\ UNCHANGED << todo, runVars, fnVars, homeVars, historyVars >>

\* the canvas of img.onload: for images within maxSize the scale is 1 and the
\* buffer read back is the decoded image
canvasSide(side, longest) ==
    IF longest <= maxSize THEN Max2(1, side) ELSE Max2(1, RDivN[side * maxSize, longest])

getImageData(file) ==
    [ width |-> canvasSide(file.width, Max2(file.width, file.height)),
      height |-> canvasSide(file.height, Max2(file.width, file.height)),
      data |-> file.data ]

\* img.onload when canvas.getContext("2d") returns null: the throw is caught
ImgLoadNoContext(c) ==
    /\ calls[c].status = "pending"
    /\ calls[c].file.kind = "image"
    /\ ~Running
    /\ Rejected(c, "Could not get canvas context")
    /\ pc' = "failed"
    /\ active' = c
    /\ sampled' = << >>
    /\ bg' = NoBackground
    /\ withNoBg' = << >>
    /\ labPoints' = << >>
    /\ k' = 0
    /\ centroids' = << >>
    /\ iter' = 0
    /\ clustered' = << >>
    /\ merged' = << >>
    /\ results' = << >>
    /\ UNCHANGED << todo, fnVars, homeVars, historyVars >>

sampleCanvas(imageData) ==
    samplePixels(imageData, chooseStride(imageData.width, imageData.height))

\* img.onload up to the call of kMeansLab, with the two throws and their catch
ImgLoad(c) ==
    /\ calls[c].status = "pending"
    /\ calls[c].file.kind = "image"
    /\ ~Running
    /\ active' = c
    /\ sampled' = Bind(getImageData(calls[c].file), sampleCanvas)
    /\ bg' = IF isEmpty(sampled') THEN NoBackground
             ELSE Bind(getImageData(calls[c].file), detectBackground)
    /\ withNoBg' = IF isEmpty(sampled') THEN << >> ELSE removeBackground(sampled', bg')
    /\ labPoints' = withLab(deduplicateRgb(withNoBg', quantStep))
    /\ k' = IF isEmpty(labPoints') THEN 0 ELSE initialK(Len(labPoints'))
    /\ centroids' = << >>
    /\ iter' = 0
    /\ clustered' = << >>
    /\ merged' = << >>
    /\ results' = << >>
    /\ IF isEmpty(sampled')
       THEN /\ Rejected(c, "No valid colors found in image")
            /\ pc' = "failed"
       ELSE IF isEmpty(labPoints')
       THEN /\ Rejected(c, "No valid colors after filtering")
            /\ pc' = "failed"
       ELSE /\ calls' = [ calls EXCEPT ![c].status = "running" ]
            /\ pc' = "seed"
            /\ UNCHANGED hookVars
    /\ UNCHANGED << todo, fnVars, homeVars, historyVars >>

\* labPoints.map((p) => p.lab)
labsOf(points) == Map(points, LAMBDA p : p.lab)

\* kMeansLab, k-means++ initialisation: one centroid is pushed
Seed ==
    /\ pc = "seed"
    /\ \E i \in IF Len(centroids) = 0 THEN 1 .. Len(labPoints)
                ELSE seedChoices(labsOf(labPoints), centroids) :
           /\ centroids' = Append(centroids, labPoints[i].lab)
           /\ pc' = IF Len(centroids) + 1 < k THEN "seed" ELSE "lloyd"
    /\ UNCHANGED << todo, calls, hookVars, active, sampled, bg, withNoBg, labPoints, k,
                    iter, clustered, merged, results, fnVars, homeVars, historyVars >>

\* kMeansLab, one iteration of the Lloyd loop
Lloyd ==
    /\ pc = "lloyd"
    /\ iter < maxIterations
    /\ \E pass \in { Bind(labsOf(labPoints), LAMBDA labs : lloydPass(labs, centroids)) } :
           /\ centroids' = pass[1]
           /\ pc' = IF pass[2] /\ iter + 1 < maxIterations THEN "lloyd" ELSE "finish"
    /\ iter' = iter + 1
    /\ UNCHANGED << todo, calls, hookVars, active, sampled, bg, withNoBg, labPoints, k,
                    clustered, merged, results, fnVars, homeVars, historyVars >>

\* img.onload from assignPointsToCentroids to resolve(results)
resolved ==
    /\ pc = "finish"
    /\ clustered' = assignPointsToCentroids(labPoints, centroids)
    /\ merged' = Bind(mergeAndFilterClusters(clustered', mergeDeltaE00, minPercent),
                      sortBySize)
    /\ results' = palette(merged')
    /\ isLoading' = FALSE
    /\ calls' = [ calls EXCEPT ![active].status = "resolved",
                               ![active].settles = @ + 1,
                               ![active].result = results' ]
    /\ pc' = "done"
    /\ UNCHANGED << todo, error, active, sampled, bg, withNoBg, labPoints, k, centroids,
                    iter, fnVars >>

\* the load handler ends, nothing awaits the promise
Finish == resolved /\ UNCHANGED << homeVars, historyVars >>

-----------------------------------------------------------------------------
(* The tail of img.onload applied to a list of clusters on its own         *)

\* merged (sorted) and results, as img.onload computes them from clustered
selection(sorted) == Bind(sorted, LAMBDA v : [ merged |-> v, results |-> palette(v) ])

InitMerge ==
    /\ todo = << >>
    /\ calls = << >>
    /\ isLoading = FALSE
    /\ error = Null
    /\ NoRun
    /\ NoHome
    /\ fnIn \in { << clusters >> : clusters \in ClusterLists }
    /\ fnOut = << >>

MergeCall ==
    /\ fnIn # << >>
    /\ fnOut = << >>
    /\ fnOut' = << selection(Bind(mergeAndFilterClusters(fnIn[1], mergeDeltaE00,
                                                         minPercent), sortBySize)) >>
    /\ UNCHANGED << todo, calls, hookVars, runVars, fnIn, homeVars,
                    historyVars >>

SpecMerge == InitMerge /\ [][MergeCall]_vars

-----------------------------------------------------------------------------

-----------------------------------------------------------------------------
(* The stages of img.onload applied on their own                           *)

\* images of up to MaxSide x MaxSide pixels, strides up to MaxStride
MaxSide == 3

MaxStride == 3

\* pixels on both sides of each test of samplePixels: alpha 159 and 160, near-white
\* by all channels, by the greatest channel only, and not at all, near-black or not
SamplePixelKinds ==
    << <<100, 100, 200, 255>>, <<100, 100, 200, 159>>, <<251, 251, 251, 255>>,
       <<110, 100, 200, 160>>, <<255, 246, 246, 255>>, <<9, 9, 9, 255>>,
       <<250, 250, 250, 255>>, <<255, 245, 255, 255>>, <<9, 9, 10, 255>> >>

\* the buffer of a w x h image whose pixels run through the kinds from kind first + 1
KindsImage(w, h, first) ==
    [ width |-> w, height |-> h,
      data |-> AsSeq([ i \in 1 .. w * h |->
                  SamplePixelKinds[((first + i - 1) % Len(SamplePixelKinds)) + 1] ]) ]

SampleArgs ==
    { << "samplePixels", KindsImage(w, h, first), stride >> :
        w \in 1 .. MaxSide, h \in 1 .. MaxSide,
        first \in 0 .. Len(SamplePixelKinds) - 1, stride \in 1 .. MaxStride }

\* images of MinBorderSide .. MaxBorderSide pixels a side: 12 to 20 border pixels
MinBorderSide == 4

MaxBorderSide == 6

\* Iris as a border pixel that does not qualify (alpha 199)
Faint == << 100, 100, 200, 199 >>

BorderPixelKinds == { Iris, Violet, Red, Faint }

\* the buffer of a w x h image with its corners of one colour, the rest of its top
\* row of another, and all other pixels of a third
Bordered(w, h, corner, top, other) ==
    [ width |-> w, height |-> h,
      data |-> AsSeq([ i \in 1 .. w * h |->
                  LET x == (i - 1) % w
                      y == (i - 1) \div w
                  IN  IF (x = 0 \/ x = w - 1) /\ (y = 0 \/ y = h - 1) THEN corner
                      ELSE IF y = 0 THEN top
                      ELSE other ]) ]

DetectArgs ==
    { << "detectBackground", Bordered(w, h, corner, top, other) >> :
        w \in MinBorderSide .. MaxBorderSide, h \in MinBorderSide .. MaxBorderSide,
        corner \in BorderPixelKinds, top \in BorderPixelKinds, other \in BorderPixelKinds }

\* lists of up to MaxPixels triples
MaxPixels == 3

\* triples that share a quantized value, that round up to 256, that lie on a half,
\* and that are outside 0 .. 255
DedupPixelKinds ==
    { <<100, 100, 200>>, <<101, 104, 203>>, <<255, 0, 4>>, <<-5, 300, 12>>, <<252, 251, 3>> }

DedupArgs ==
    { << "deduplicateRgb", pixels >> :
        pixels \in UNION { [ 1 .. n -> DedupPixelKinds ] : n \in 0 .. MaxPixels } }

\* up to MaxPoints points and up to MaxCentroids centroids
MaxPoints == 3

MaxCentroids == 3

\* the first colour of blocks 1 .. 4 as points, the second Lab value of blocks 1 .. 3
\* as centroids: blocks 1 and 2 are near each other, a list can hold a centroid twice
AssignArgs ==
    { << "assignPointsToCentroids", pts, cs >> :
        pts \in UNION { [ 1 .. n -> { BlockPoints[b][1] : b \in 1 .. 4 } ] :
                          n \in 1 .. MaxPoints },
        cs \in UNION { [ 1 .. n -> { BlockPoints[b][2].lab : b \in 1 .. 3 } ] :
                         n \in 1 .. MaxCentroids } }

\* lists of up to MaxChain clusters
MaxChain == 3

\* clusters of colours a few steps apart on the blue axis of one red, (200, 0, 0),
\* (200, 0, 32), (200, 0, 40) and (200, 0, 56), and a cluster of two greens far from all:
\* the first red is nearer than mergeDeltaE00 to the second and third and not to the
\* fourth, which is nearer than mergeDeltaE00 to the second and third
ChainClusters ==
    { withMeanCentroid(<< labPoint(<<200, 0, 0>>) >>),
      withMeanCentroid(<< labPoint(<<200, 0, 32>>) >>),
      withMeanCentroid(<< labPoint(<<200, 0, 40>>) >>),
      withMeanCentroid(<< labPoint(<<200, 0, 56>>) >>),
      withMeanCentroid(<< labPoint(<<0, 200, 0>>), labPoint(<<0, 208, 0>>) >>) }

\* lists of distinct clusters: the clusters of one assignment share no point
ChainLists ==
    { clusters \in UNION { [ 1 .. n -> ChainClusters ] : n \in 1 .. MaxChain } :
        \A i \in DOMAIN clusters : \A j \in DOMAIN clusters :
            i # j => clusters[i] # clusters[j] }

MergePassArgs == { << "mergePass", clusters >> : clusters \in ChainLists }

MergeArgs == { << "mergeAndFilterClusters", clusters >> : clusters \in ChainLists }

\* up to MaxLloydPoints points
MaxLloydPoints == 3

\* the lists of kk centroids that the k-means++ draws can leave for these points
SeedLists(labs, kk) ==
    { seeds \in [ 1 .. kk -> { labs[i] : i \in 1 .. Len(labs) } ] :
        \A j \in 1 .. kk - 1 :
            \E i \in seedChoices(labs, SubSeq(seeds, 1, j)) : seeds[j + 1] = labs[i] }

\* lists of distinct Lab points, the first of blocks 1 .. 4
LloydPoints ==
    { labs \in UNION { [ 1 .. n -> { BlockPoints[b][1].lab : b \in 1 .. 4 } ] :
                         n \in 1 .. MaxLloydPoints } :
        \A i \in DOMAIN labs : \A j \in DOMAIN labs : i # j => labs[i] # labs[j] }

\* the points, the centroids as seeded for k = initialK, and maxIterations as
\* extractColors passes it or smaller
LloydArgs ==
    UNION { { << "kMeansLab", labs, seeds, maxIter >> :
                seeds \in SeedLists(labs, initialK(Len(labs))),
                maxIter \in { 1, 2, maxIterations } } : labs \in LloydPoints }

\* up to MaxUnique unique colours: the square root of 273 rounds to 17
MaxUnique == 300

InitialKArgs == { << "initialK", n >> : n \in 1 .. MaxUnique }

\* widths and heights whose products lie on, just below and just above 150,000,
\* 400,000 and 800,000
StrideWidths == { 1, 2, 375, 400, 500, 600, 800, 1000 }

StrideHeights ==
    { 1, 400, 401, 600, 800, 801, 1000, 149999, 150000, 150001, 399999, 400000, 400001,
      799999, 800000, 800001 }

StrideArgs == { << "chooseStride", w, h >> : w \in StrideWidths, h \in StrideHeights }

\* Lab points for deltaE00: the eight corners of the RGB cube and mid grey
\* through rgbToLab, and points on the a and b axes and either side of hue 0
\* (opposite hues are exactly 180 degrees apart, hues 1 and 359 wrap around)
DeltaColours ==
    { << r, g, b >> : r \in { 0, 255 }, g \in { 0, 255 }, b \in { 0, 255 } }
        \cup { << 128, 128, 128 >> }

DeltaPoints ==
    { rgbToLab(rgb) : rgb \in DeltaColours }
        \cup { << 5000, 2000, 0 >>, << 5000, -2000, 0 >>, << 5000, 0, 2000 >>,
               << 5000, 0, -2000 >>, << 5000, 2000, 35 >>, << 5000, 2000, -35 >>,
               << 3000, 1000, -4000 >> }

DeltaArgs == { << "deltaE00", p, q >> : p \in DeltaPoints, q \in DeltaPoints }

InitStage ==
    /\ todo = << >>
    /\ calls = << >>
    /\ isLoading = FALSE
    /\ error = Null
    /\ NoRun
    /\ NoHome
    /\ fnIn \in SampleArgs \cup DetectArgs \cup DedupArgs \cup AssignArgs
                \cup MergePassArgs \cup MergeArgs \cup LloydArgs
                \cup InitialKArgs \cup StrideArgs \cup DeltaArgs
    /\ fnOut = << >>

\* samplePixels(imageData, { stride, skipAlphaBelow: 160 })
SampleCall ==
    /\ fnIn # << >>
    /\ fnIn[1] = "samplePixels"
    /\ fnOut = << >>
    /\ fnOut' = << samplePixels(fnIn[2], fnIn[3]) >>
    /\ UNCHANGED << todo, calls, hookVars, runVars, fnIn, homeVars,
                    historyVars >>

\* detectBackground(imageData)
DetectCall ==
    /\ fnIn # << >>
    /\ fnIn[1] = "detectBackground"
    /\ fnOut = << >>
    /\ fnOut' = << detectBackground(fnIn[2]) >>
    /\ UNCHANGED << todo, calls, hookVars, runVars, fnIn, homeVars,
                    historyVars >>

\* deduplicateRgb(withNoBg, 8)
DedupCall ==
    /\ fnIn # << >>
    /\ fnIn[1] = "deduplicateRgb"
    /\ fnOut = << >>
    /\ fnOut' = << deduplicateRgb(fnIn[2], quantStep) >>
    /\ UNCHANGED << todo, calls, hookVars, runVars, fnIn, homeVars,
                    historyVars >>

\* assignPointsToCentroids(labPoints, clusters.centroids)
AssignCall ==
    /\ fnIn # << >>
    /\ fnIn[1] = "assignPointsToCentroids"
    /\ fnOut = << >>
    /\ fnOut' = << assignPointsToCentroids(fnIn[2], fnIn[3]) >>
    /\ UNCHANGED << todo, calls, hookVars, runVars, fnIn, homeVars,
                    historyVars >>

\* the loop "for (const c of clusters)" of mergeAndFilterClusters with
\* opts.mergeDeltaE00 = 10
MergePassCall ==
    /\ fnIn # << >>
    /\ fnIn[1] = "mergePass"
    /\ fnOut = << >>
    /\ fnOut' = << mergePass(fnIn[2], 1, << >>, mergeDeltaE00) >>
    /\ UNCHANGED << todo, calls, hookVars, runVars, fnIn, homeVars,
                    historyVars >>

\* mergeAndFilterClusters(clustered, { mergeDeltaE00: 10, minPercent: 1.5 })
MergeFilterCall ==
    /\ fnIn # << >>
    /\ fnIn[1] = "mergeAndFilterClusters"
    /\ fnOut = << >>
    /\ fnOut' = << mergeAndFilterClusters(fnIn[2], mergeDeltaE00, minPercent) >>
    /\ UNCHANGED << todo, calls, hookVars, runVars, fnIn, homeVars,
                    historyVars >>

\* kMeansLab(labPoints.map((p) => p.lab), initialK, 20) after its k-means++ draws
KMeansCall ==
    /\ fnIn # << >>
    /\ fnIn[1] = "kMeansLab"
    /\ fnOut = << >>
    /\ fnOut' = << lloydLoop(fnIn[2], fnIn[3], 0, fnIn[4]) >>
    /\ UNCHANGED << todo, calls, hookVars, runVars, fnIn, homeVars,
                    historyVars >>

\* const initialK = Math.max(4, Math.min(16, Math.round(Math.sqrt(uniqueCount))))
InitialKCall ==
    /\ fnIn # << >>
    /\ fnIn[1] = "initialK"
    /\ fnOut = << >>
    /\ fnOut' = << initialK(fnIn[2]) >>
    /\ UNCHANGED << todo, calls, hookVars, runVars, fnIn, homeVars,
                    historyVars >>

\* chooseStride(imageData.width, imageData.height)
StrideCall ==
    /\ fnIn # << >>
    /\ fnIn[1] = "chooseStride"
    /\ fnOut = << >>
    /\ fnOut' = << chooseStride(fnIn[2], fnIn[3]) >>
    /\ UNCHANGED << todo, calls, hookVars, runVars, fnIn, homeVars,
                    historyVars >>

\* deltaE00(lab1, lab2)
DeltaCall ==
    /\ fnIn # << >>
    /\ fnIn[1] = "deltaE00"
    /\ fnOut = << >>
    /\ fnOut' = << deltaE00(fnIn[2], fnIn[3]) >>
    /\ UNCHANGED << todo, calls, hookVars, runVars, fnIn, homeVars,
                    historyVars >>

NextStage ==
    \/ SampleCall
    \/ DetectCall
    \/ DedupCall
    \/ AssignCall
    \/ MergePassCall
    \/ MergeFilterCall
    \/ KMeansCall
    \/ InitialKCall
    \/ StrideCall
    \/ DeltaCall

SpecStage == InitStage /\ [][NextStage]_vars

Next ==
    \/ StartCall
    \/ \E c \in 1 .. Len(calls) : ImgError(c)
    \/ \E c \in 1 .. Len(calls) : ImgLoadNoContext(c)
    \/ \E c \in 1 .. Len(calls) : ImgLoad(c)
    \/ Seed
    \/ Lloyd
    \/ Finish

Spec == Init /\ [][Next]_vars

\* the load and error handlers: once the event has fired the handler runs to its end
Handle ==
    \/ \E c \in 1 .. Len(calls) : ImgError(c)
    \/ \E c \in 1 .. Len(calls) : ImgLoadNoContext(c)
    \/ \E c \in 1 .. Len(calls) : ImgLoad(c)
    \/ Seed
    \/ Lloyd
    \/ Finish

\* every image's load or error event fires, and a handler that runs returns
FairSpec == Spec /\ WF_vars(Handle)

\* extractColors on the small files and the tail of img.onload on its own
InitSelect == Init \/ InitMerge

NextSelect == Next \/ MergeCall

SpecSelect == InitSelect /\ [][NextSelect]_vars

\* extractColors on the image of four quadrants (and on a file that does not decode)
InitQuadrant ==
    /\ todo \in { << QuadrantImage >>, << BrokenFile >> }
    /\ calls = << >>
    /\ isLoading = FALSE
    /\ error = Null
    /\ NoRun
    /\ NoHome
    /\ fnIn = << >>
    /\ fnOut = << >>

SpecQuadrant == InitQuadrant /\ [][Next]_vars

\* extractColors on the small files, with fewer colours than k, and on the image of
\* four quadrants, with as many; every handler that runs returns
InitSeed == Init \/ InitQuadrant

SpecSeed == InitSeed /\ [][Next]_vars /\ WF_vars(Handle)

-----------------------------------------------------------------------------
(* usePaletteHistory                                                       *)

\* const MAX_HISTORY = 20
MAX_HISTORY == 20

\* imageDataUrl?: undefined
Undefined == << >>

\* localStorage.getItem(STORAGE_KEY) === null
Absent == << >>

\* JSON.stringify of one entry: its fields in order, a field that is undefined left out
stringifyEntry(e) ==
    << << "id", e.id >>, << "colors", e.colors >>, << "timestamp", e.timestamp >> >>
    \o (IF e.imageDataUrl = Undefined THEN << >>
        ELSE << << "imageDataUrl", e.imageDataUrl[1] >> >>)

\* JSON.stringify(updated)
stringify(entries) == Map(entries, stringifyEntry)

\* JSON.parse of one entry: a field that is missing reads as undefined
parseEntry(o) ==
    [ id |-> o[1][2], colors |-> o[2][2], timestamp |-> o[3][2],
      imageDataUrl |-> IF Len(o) >= 4 THEN << o[4][2] >> ELSE Undefined ]

\* JSON.parse(stored) as PaletteEntry[]
parse(text) == Map(text, parseEntry)

\* the effect run on mount: the stored history, if any, becomes the state
loadHistory(item) == IF item = Absent THEN << >> ELSE parse(item[1])

\* the suffixes Math.random().toString(36).substr(2, 9) can give, here two
RandomSuffixes == { "k3f", "q9z" }

\* const newEntry, with Date.now() = t and the random suffix r
newEntry(cols, url, t, r) ==
    [ id |-> << "palette", t, r >>, colors |-> cols, timestamp |-> t, imageDataUrl |-> url ]

\* the new entry put in twice
savedTwice(entry, prev) ==
    SubSeq(<< entry, entry >> \o prev, 1, Min2(Len(prev) + 2, MAX_HISTORY))

\* the history is not cut: [newEntry, ...prev]
savedUncapped(entry, prev) == << entry >> \o prev

\* [newEntry, ...prev].slice(0, MAX_HISTORY)
saved(entry, prev) == SubSeq(<< entry >> \o prev, 1, Min2(Len(prev) + 1, MAX_HISTORY))

\* only the first entry with this id is removed
deletedFirst(id, prev) ==
    IF \E i \in 1 .. Len(prev) : prev[i].id = id
    THEN LET first == MinOfSet({ i \in 1 .. Len(prev) : prev[i].id = id })
         IN  SubSeq(prev, 1, first - 1) \o SubSeq(prev, first + 1, Len(prev))
    ELSE prev

\* prev.filter((entry) => entry.id !== id)
deleted(id, prev) == SelectSeq(prev, LAMBDA entry : entry.id # id)

\* the write stores the history as it was before the update
setItemPrevious(updated, ok) ==
    /\ stored' = IF ok THEN << stringify(history) >> ELSE stored
    /\ writeFailed' = (writeFailed \/ ~ok)

\* localStorage.setItem(STORAGE_KEY, JSON.stringify(updated)) in its try block: the
\* write succeeds, or it throws (quota exceeded, storage disabled) and is logged
setItem(updated, ok) ==
    /\ stored' = IF ok THEN << stringify(updated) >> ELSE stored
    /\ writeFailed' = (writeFailed \/ ~ok)

\* at most MaxOps calls of savePalette, deletePalette and clearHistory
MaxOps == 3

\* savePalette(colors, imageDataUrl): Date.now() has not moved since the last call or is a
\* millisecond later
savePalette(cols, url) ==
    /\ ops < MaxOps
    /\ ops' = ops + 1
    /\ \E t \in { now, now + 1 }, r \in RandomSuffixes, ok \in BOOLEAN :
           /\ now' = t
           /\ history' = saved(newEntry(cols, url, t, r), history)
           /\ setItem(history', ok)

\* deletePalette(id)
deletePalette(id) ==
    /\ ops < MaxOps
    /\ ops' = ops + 1
    /\ history' = deleted(id, history)
    /\ \E ok \in BOOLEAN : setItem(history', ok)
    /\ UNCHANGED now

\* clearHistory(): setHistory([]); localStorage.removeItem(STORAGE_KEY) in its try block
clearHistory ==
    /\ ops < MaxOps
    /\ ops' = ops + 1
    /\ history' = << >>
    /\ \E ok \in BOOLEAN :
           /\ stored' = IF ok THEN Absent ELSE stored
           /\ writeFailed' = (writeFailed \/ ~ok)
    /\ UNCHANGED now

-----------------------------------------------------------------------------
(* Home                                                                    *)

\* canvas.width, canvas.height of the thumbnail: scale = Math.min(1, 400 / img.width)
thumbnailSide(side, width) == IF width <= 400 THEN side ELSE RDivN[side * 400, width]

\* canvas.toDataURL('image/jpeg', 0.7) of the file drawn at the thumbnail's size
thumbnailUrl(file) ==
    << "data:image/jpeg", thumbnailSide(file.width, file.width),
       thumbnailSide(file.height, file.width), file.data >>

\* handleImageSelect(file) up to the await: setPreviewUrl(url); setColors([]);
\* extractColors(file)
HandleImageSelect ==
    /\ extractColorsCalled
    /\ previewUrl' = Len(calls) + 1
    /\ colors' = << >>
    /\ UNCHANGED << thumbs, historyVars >>

\* the load handler resolves and handleImageSelect goes on after its await:
\* setColors(extractedColors), and the thumbnail Image is created
ExtractedColors ==
    /\ resolved
    /\ colors' = results'
    /\ thumbs' = IF Len(results') > 0 THEN thumbs \cup { active } ELSE thumbs
    /\ UNCHANGED << previewUrl, historyVars >>

\* img.onload of the thumbnail of call c: savePalette(extractedColors, thumbnailUrl)
ThumbnailLoad(c) ==
    /\ c \in thumbs
    /\ ~Running
    /\ thumbs' = thumbs \ { c }
    /\ savePalette(calls[c].result, << thumbnailUrl(calls[c].file) >>)
    /\ UNCHANGED << todo, calls, hookVars, runVars, fnVars, previewUrl, colors >>

\* img.onload of the thumbnail when canvas.getContext('2d') returns null: return
ThumbnailNoContext(c) ==
    /\ c \in thumbs
    /\ ~Running
    /\ thumbs' = thumbs \ { c }
    /\ UNCHANGED << todo, calls, hookVars, runVars, fnVars, previewUrl, colors,
                    historyVars >>

\* up to MaxSelections images are selected, by upload, drop or paste
MaxSelections == 2

\* a strip of one colour, a strip of two, an image with nothing to sample and a file
\* that does not decode
HomeFiles ==
    { Strip(Red, Red, Red), Strip(Iris, Iris, Red), Strip(Ghost, Ghost, Ghost),
      BrokenFile }

InitHome ==
    /\ todo \in { fs \in UNION { [ 1 .. n -> HomeFiles ] : n \in 1 .. MaxSelections } :
                    \A i \in DOMAIN fs : \A j \in DOMAIN fs : i # j => fs[i] # fs[j] }
    /\ calls = << >>
    /\ isLoading = FALSE
    /\ error = Null
    /\ NoRun
    /\ NoHome
    /\ fnIn = << >>
    /\ fnOut = << >>

NextHome ==
    \/ HandleImageSelect
    \/ \E c \in 1 .. Len(calls) : ImgError(c)
    \/ \E c \in 1 .. Len(calls) : ImgLoadNoContext(c)
    \/ \E c \in 1 .. Len(calls) : ImgLoad(c)
    \/ Seed
    \/ Lloyd
    \/ ExtractedColors
    \/ \E c \in 1 .. Len(calls) : ThumbnailLoad(c)
    \/ \E c \in 1 .. Len(calls) : ThumbnailNoContext(c)

SpecHome == InitHome /\ [][NextHome]_vars

-----------------------------------------------------------------------------
(* usePaletteHistory on its own, from a history stored by an earlier session *)

\* the lengths of the stored history: none, short, one below the limit and at the limit
HistoryLengths == { 0, 1, 3, MAX_HISTORY - 1, MAX_HISTORY }

\* a history of n entries as earlier calls of savePalette left it: entry i was saved at
\* millisecond n + 1 - i, every second one without thumbnail; with twin, the two newest
\* were saved in the same millisecond with the same random suffix
OldHistory(n, twin) ==
    AsSeq([ i \in 1 .. n |->
              newEntry(<< colorOf(<< 200, 0, 8 * i >>) >>,
                       IF i % 2 = 0 THEN Undefined
                       ELSE << thumbnailUrl(Strip(Red, Red, Red)) >>,
                       IF twin /\ i = 1 THEN n - 1 ELSE n + 1 - i, "k3f") ])

StoredHistories ==
    { OldHistory(n, twin) : n \in HistoryLengths, twin \in BOOLEAN } \
    { OldHistory(n, TRUE) : n \in { 0, 1 } }

InitHistory ==
    /\ todo = << >>
    /\ calls = << >>
    /\ isLoading = FALSE
    /\ error = Null
    /\ NoRun
    /\ fnIn = << >>
    /\ fnOut = << >>
    /\ previewUrl = 0
    /\ colors = << >>
    /\ thumbs = {}
    /\ stored \in { Absent } \cup { << stringify(h) >> : h \in StoredHistories }
    /\ history = loadHistory(stored)
    /\ now = IF history = << >> THEN 0 ELSE history[1].timestamp
    /\ ops = 0
    /\ writeFailed = FALSE

\* the ids the delete buttons pressed here stand for: those of the two newest entries
\* and of the oldest, and one of no entry
DeleteIds(h) ==
    { h[i].id : i \in { j \in { 1, 2, Len(h) } : j >= 1 /\ j <= Len(h) } }
    \cup { << "palette", 0, "q9z" >> }

\* paletteHistory.savePalette(extractedColors, thumbnailUrl)
SaveCall ==
    /\ savePalette(<< colorOf(<< 0, 200, 0 >>) >>, << thumbnailUrl(Strip(Iris, Iris, Red)) >>)
    /\ UNCHANGED << todo, calls, hookVars, runVars, fnVars, homeVars >>

\* paletteHistory.deletePalette(entry.id)
DeleteCall(id) ==
    /\ deletePalette(id)
    /\ UNCHANGED << todo, calls, hookVars, runVars, fnVars, homeVars >>

\* paletteHistory.clearHistory()
ClearCall ==
    /\ clearHistory
    /\ UNCHANGED << todo, calls, hookVars, runVars, fnVars, homeVars >>

NextHistory ==
    \/ SaveCall
    \/ \E id \in DeleteIds(history) : DeleteCall(id)
    \/ ClearCall

SpecHistory == InitHistory /\ [][NextHistory]_vars

-----------------------------------------------------------------------------
(* Properties of the palette                                               *)

\* the rgb of a palette entry as a triple
Triple(e) == << e.rgb.r, e.rgb.g, e.rgb.b >>

\* the load handler of the active call has resolved the promise
Done == pc = "done"

\* C1: every RGB triple of the returned palette is the RGB value of a pixel the
\* sampler emitted in that run: no channel is rounded, quantized or averaged
C1_PaletteOfSampledPixels ==
    Done => \A i \in 1 .. Len(results) : Triple(results[i]) \in SeqRange(sampled)

\* the pixels, as sampled, that deduplicateRgb maps to a member of cluster c
originals(c) ==
    SelectSeq(withNoBg,
              LAMBDA p : \E j \in 1 .. Len(c.points) :
                            c.points[j].rgb = quantizeRgb(p, quantStep))

\* C2: the colour emitted for a cluster is the most frequent colour among the sampled
\* pixels, before quantization, assigned to that cluster; ties go to the first met
C2_MostFrequentOriginal ==
    Done => \A i \in 1 .. Len(merged) :
                Triple(results[i]) = mostFrequentRgb(originals(merged[i]))

\* C3: in every returned entry r, g and b are integers in 0 .. 255
C3_ChannelsAreBytes ==
    \A c \in 1 .. Len(calls) :
        calls[c].status = "resolved" =>
            \A i \in 1 .. Len(calls[c].result) :
                /\ calls[c].result[i].rgb.r \in 0 .. 255
                /\ calls[c].result[i].rgb.g \in 0 .. 255
                /\ calls[c].result[i].rgb.b \in 0 .. 255

UpperHexDigits ==
    <<"0", "1", "2", "3", "4", "5", "6", "7", "8", "9", "A", "B", "C", "D", "E", "F">>

IsUpperHexDigit(ch) == \E v \in 1 .. 16 : UpperHexDigits[v] = ch

\* the number two upper-case hexadecimal digits denote
HexByte(hi, lo) ==
    16 * ((CHOOSE v \in 1 .. 16 : UpperHexDigits[v] = hi) - 1)
    + (CHOOSE v \in 1 .. 16 : UpperHexDigits[v] = lo) - 1

\* C4: hex is "#" followed by six upper-case hexadecimal digits, the two-digit
\* encodings of the same entry's r, g and b in that order
C4_HexEncodesRgb ==
    \A c \in 1 .. Len(calls) :
        calls[c].status = "resolved" =>
            \A i \in 1 .. Len(calls[c].result) :
                LET e == calls[c].result[i]
                IN  /\ Len(e.hex) = 7
                    /\ e.hex[1] = "#"
                    /\ \A n \in 2 .. 7 : IsUpperHexDigit(e.hex[n])
                    /\ HexByte(e.hex[2], e.hex[3]) = e.rgb.r
                    /\ HexByte(e.hex[4], e.hex[5]) = e.rgb.g
                    /\ HexByte(e.hex[6], e.hex[7]) = e.rgb.b

\* C5: the palette lists the clusters in order, and of two adjacent entries the
\* earlier one's cluster has at least as many members as the later one's
C5_SortedByDominance ==
    Done => /\ Len(results) = Len(merged)
            /\ \A i \in 1 .. Len(merged) : results[i] = paletteEntry(merged[i])
            /\ \A i \in 1 .. Len(merged) - 1 :
                  Len(merged[i].points) >= Len(merged[i + 1].points)

\* a palette of clusters of different sizes that the sort had to reorder
C5_Reordered ==
    /\ Done
    /\ Len(merged) >= 2
    /\ Len(merged[1].points) > Len(merged[Len(merged)].points)
    /\ merged # mergeAndFilterClusters(clustered, mergeDeltaE00, minPercent)

\* the clusters of the function's argument after the merge pass, before the filter
mergedClusters ==
    IF Len(fnIn[1]) <= 1 THEN fnIn[1] ELSE mergePass(fnIn[1], 1, << >>, mergeDeltaE00)

\* the total member count of all merged clusters
mergedTotal == totalPoints(mergedClusters, Len(mergedClusters))

\* the function has been applied to its argument
Applied == fnOut # << >>

C7_PaletteNotEmpty ==
    /\ \A c \in 1 .. Len(calls) :
          calls[c].status = "resolved" => Len(calls[c].result) >= 1
    /\ Applied => Len(fnOut[1].merged) >= 1 /\ Len(fnOut[1].results) >= 1

\* of three clusters the filter kept exactly one
C7_OneOfThreeKept ==
    /\ Applied
    /\ Len(mergedClusters) = 3
    /\ Len(fnOut[1].results) = 1

\* C8: when the sampler emits no pixel, and when no colour is left after background
\* removal and deduplication, the call is rejected: clustering never starts and no
\* palette, not even a partial one, is returned
C8_NothingLeftRejects ==
    (active # 0 /\ pc # "idle" /\ Len(labPoints) = 0) =>
        /\ pc = "failed"
        /\ calls[active].status = "rejected"
        /\ calls[active].result = << >>
        /\ error # Null
        /\ centroids = << >>
        /\ clustered = << >>
        /\ merged = << >>
        /\ results = << >>

\* every sampled pixel was removed as background and the call was rejected
C8_AllBackground ==
    /\ pc = "failed"
    /\ Len(sampled) > 0
    /\ Len(withNoBg) = 0
    /\ calls[active].status = "rejected"
    /\ error = << "No valid colors after filtering" >>

\* the sampler emitted no pixel and the call was rejected
C8_NothingSampled ==
    /\ pc = "failed"
    /\ error = << "No valid colors found in image" >>

Settled(c) == calls[c].status \in { "resolved", "rejected" }

\* resolve or reject has been called once for a settled promise, never for another,
\* and a handler at its end has settled its promise
SettledOnce ==
    /\ \A c \in 1 .. Len(calls) : calls[c].settles = (IF Settled(c) THEN 1 ELSE 0)
    /\ (active # 0 /\ pc \in { "done", "failed" }) => Settled(active)

\* the step that settles a promise leaves isLoading false and, on rejection, error
\* non-null; a settled promise does not change again
SettleStep ==
    \A c \in 1 .. Len(calls) :
        /\ calls'[c].settles > calls[c].settles =>
              /\ ~isLoading'
              /\ calls'[c].status = "rejected" => error' # Null
        /\ Settled(c) => calls'[c] = calls[c]

AllSettled == calls # << >> /\ \A c \in 1 .. Len(calls) : Settled(c)

\* C9: every call settles exactly once, by resolve or by reject, never both and - the
\* load or error event firing - never neither; when it settles isLoading becomes
\* false, and on rejection error is non-null
C9_SettlesExactlyOnce ==
    /\ []SettledOnce
    /\ [][SettleStep]_vars
    /\ (calls # << >>) ~> AllSettled

\* a call has been rejected
C9_Rejected ==
    \E c \in 1 .. Len(calls) :
        /\ calls[c].status = "rejected"
        /\ calls[c].settles = 1
        /\ ~isLoading
        /\ error # Null

\* C10: for the image of four quadrants every run, whatever the seeding, returns
\* exactly four entries, with the RGB values of the four quadrants
C10_QuadrantPalette ==
    \A c \in 1 .. Len(calls) :
        calls[c].status = "resolved" =>
            /\ Len(calls[c].result) = 4
            /\ { Triple(calls[c].result[i]) : i \in 1 .. 4 } =
                  { <<255, 0, 0>>, <<0, 255, 0>>, <<0, 0, 255>>, <<255, 255, 0>> }

-----------------------------------------------------------------------------
(* Properties of the stages                                                *)

\* every pixel of the file has the same opaque colour
Solid(file) ==
    /\ file.kind = "image"
    /\ \A i \in 1 .. Len(file.data) : file.data[i] = file.data[1] /\ file.data[i][4] = 255

\* C11: for an image of one opaque colour c a call never returns more than one entry,
\* and an entry it returns has the RGB value c
C11_SolidColour ==
    \A c \in 1 .. Len(calls) :
        (calls[c].status = "resolved" /\ Solid(calls[c].file)) =>
            /\ Len(calls[c].result) <= 1
            /\ \A i \in 1 .. Len(calls[c].result) :
                  Triple(calls[c].result[i]) = SubSeq(calls[c].file.data[1], 1, 3)

\* C11, the part the code keeps: never more than one entry
C11_AtMostOne ==
    \A c \in 1 .. Len(calls) :
        (calls[c].status = "resolved" /\ Solid(calls[c].file)) => Len(calls[c].result) <= 1

\* the load handler has computed sampled, bg, withNoBg and labPoints
Loaded == active # 0 /\ pc \in { "seed", "lloyd", "finish", "done" }

\* the distance of a pixel to the background colour is at most 8
NearBackground(p) == deltaE00(rgbToLab(p), rgbToLab(bg)) <= 800

\* C12: with a background detected, the samples left are the samples further than 8
\* from it, in order, and every clustered colour is the quantized value of a sample
\* left; with no background detected every sample is left
C12_BackgroundRemoved ==
    Loaded =>
        /\ bg # NoBackground =>
              withNoBg = SelectSeq(sampled, LAMBDA p : ~NearBackground(p))
        /\ bg = NoBackground => withNoBg = sampled
        /\ \A i \in 1 .. Len(labPoints) :
              \E j \in 1 .. Len(withNoBg) :
                  labPoints[i].rgb = quantizeRgb(withNoBg[j], quantStep)

\* a background was detected, some samples were removed and some left
C12_SomeRemoved ==
    /\ pc = "done"
    /\ bg # NoBackground
    /\ Len(withNoBg) >= 1
    /\ Len(withNoBg) < Len(sampled)

\* samplePixels has been applied
SampleApplied == fnIn # << >> /\ fnIn[1] = "samplePixels" /\ fnOut # << >>

\* the positions of the buffer, in scan order, whose x and y are multiples of the stride
OnGrid(img, stride) ==
    SelectSeq(AsSeq([ i \in 1 .. img.width * img.height |-> i ]),
              LAMBDA i : /\ ((i - 1) % img.width) % stride = 0
                         /\ ((i - 1) \div img.width) % stride = 0)

\* the RGB values, in scan order, of the pixels on the grid that the test keeps
Emitted(img, stride, Discard(_)) ==
    Map(SelectSeq(Map(OnGrid(img, stride), LAMBDA i : img.data[i]),
                  LAMBDA p : ~Discard(p)),
        LAMBDA p : SubSeq(p, 1, 3))

\* C13, as stated: the pixels emitted are those on the grid of the stride, each once
\* and unchanged, but for those with alpha below 160, with all three channels above
\* 250, or with all three channels below 10
C13_SamplerDiscards ==
    SampleApplied =>
        fnOut[1] = Emitted(fnIn[2], fnIn[3],
                           LAMBDA p : \/ p[4] < 160
                                      \/ p[1] > 250 /\ p[2] > 250 /\ p[3] > 250
                                      \/ p[1] < 10 /\ p[2] < 10 /\ p[3] < 10)

\* C13, as the code has it: near-white is some channel above 250 and all three
\* above 245
C13_SamplerDiscardsNearWhite ==
    SampleApplied =>
        fnOut[1] = Emitted(fnIn[2], fnIn[3],
                           LAMBDA p : \/ p[4] < 160
                                      \/ /\ p[1] > 250 \/ p[2] > 250 \/ p[3] > 250
                                         /\ p[1] > 245 /\ p[2] > 245 /\ p[3] > 245
                                      \/ p[1] < 10 /\ p[2] < 10 /\ p[3] < 10)

\* a stride above 1 skipped pixels, and of the pixels visited some were discarded
\* and some emitted
C13_SomeSkippedSomeKept ==
    /\ SampleApplied
    /\ fnIn[3] >= 2
    /\ Len(OnGrid(fnIn[2], fnIn[3])) < Len(fnIn[2].data)
    /\ Len(fnOut[1]) >= 1
    /\ Len(fnOut[1]) < Len(OnGrid(fnIn[2], fnIn[3]))

\* detectBackground has been applied
DetectApplied == fnIn # << >> /\ fnIn[1] = "detectBackground" /\ fnOut # << >>

\* the positions of the four border lines in the order detectBackground meets them,
\* each position once
BorderPositions(img) ==
    Distinct([ j \in 1 .. 2 * img.width |->
                 (IF j % 2 = 1 THEN 0 ELSE img.height - 1) * img.width + (j - 1) \div 2 + 1 ]
             \o [ j \in 1 .. 2 * img.height |->
                 ((j - 1) \div 2) * img.width + (IF j % 2 = 1 THEN 1 ELSE img.width) ])

\* the RGB values of the border pixels of alpha 200 or more, each pixel counted once
QualifyingBorder(img) ==
    dropAlpha(SelectSeq(Map(BorderPositions(img), LAMBDA i : img.data[i]),
                        LAMBDA p : p[4] >= 200))

\* at least 20 pixels, and at least 60% of them within 6 of their mean in Lab
UniformBorder(border) ==
    /\ Len(border) >= 20
    /\ Bind(Map(border, rgbToLab),
            LAMBDA labs : Bind(MeanLab(labs), LAMBDA mean :
                10 * Cardinality({ i \in 1 .. Len(labs) : deltaE00(labs[i], mean) <= 600 })
                    >= 6 * Len(labs)))

\* C14: a background is reported if and only if at least 20 border pixels, each
\* counted once, have alpha 200 or more and at least 60% of them lie within 6 of
\* their mean in Lab
C14_BackgroundIff ==
    DetectApplied =>
        (fnOut[1] # NoBackground <=> UniformBorder(QualifyingBorder(fnIn[2])))

\* C15: a background reported is the RGB value that the largest number of qualifying
\* border pixels carry, the first met of those that tie
C15_MostFrequentBorderPixel ==
    (DetectApplied /\ fnOut[1] # NoBackground) =>
        fnOut[1] = mostFrequentRgb(QualifyingBorder(fnIn[2]))

\* deduplicateRgb has been applied
DedupApplied == fnIn # << >> /\ fnIn[1] = "deduplicateRgb" /\ fnOut # << >>

\* c clamped to 0 .. 255 and rounded to the nearest multiple of 8, a half upwards
Rounded8(c) ==
    CHOOSE m \in { 8 * n : n \in 0 .. 32 } :
        LET cc == IF c < 0 THEN 0 ELSE IF c > 255 THEN 255 ELSE c
        IN  m - 4 <= cc /\ cc < m + 4

RoundedTriple(p) == << Rounded8(p[1]), Rounded8(p[2]), Rounded8(p[3]) >>

\* the index of the first pixel whose quantized triple is q
FirstOf(pixels, q) == MinOfSet({ i \in 1 .. Len(pixels) : RoundedTriple(pixels[i]) = q })

\* C16: the output holds the quantized triple of every input pixel and nothing else,
\* each once, in order of first occurrence
C16_DedupQuantized ==
    DedupApplied =>
        /\ SeqRange(fnOut[1]) = { RoundedTriple(fnIn[2][i]) : i \in 1 .. Len(fnIn[2]) }
        /\ \A i \in 1 .. Len(fnOut[1]) : \A j \in 1 .. Len(fnOut[1]) :
              /\ i # j => fnOut[1][i] # fnOut[1][j]
              /\ i < j => FirstOf(fnIn[2], fnOut[1][i]) < FirstOf(fnIn[2], fnOut[1][j])

\* two pixels shared a quantized value, and a channel outside 0 .. 255 was clamped
C16_SharedAndClamped ==
    /\ DedupApplied
    /\ Len(fnOut[1]) = 2
    /\ Len(fnIn[2]) = 3
    /\ \E i \in 1 .. 3 : fnIn[2][i][1] < 0

\* assignPointsToCentroids has been applied
AssignApplied == fnIn # << >> /\ fnIn[1] = "assignPointsToCentroids" /\ fnOut # << >>

\* centroid c is the nearest to lab by Delta-E 76, and the first of those as near
NearestIs(lab, cs, c) ==
    /\ \A j \in 1 .. Len(cs) : euclideanLabSq(lab, cs[c]) <= euclideanLabSq(lab, cs[j])
    /\ \A j \in 1 .. c - 1 : euclideanLabSq(lab, cs[c]) < euclideanLabSq(lab, cs[j])

\* the points whose nearest centroid is c, in input order
PointsOf(pts, cs, c) == SelectSeq(pts, LAMBDA p : NearestIs(p.lab, cs, c))

\* C17: the clusters returned are, in the order of the centroids, the non-empty
\* sets of points nearest to each centroid (lowest index on ties): every point is in
\* exactly one cluster, none is lost or duplicated, no cluster is empty
C17_AssignPartitions ==
    AssignApplied =>
        /\ \A n \in 1 .. Len(fnOut[1]) : Len(fnOut[1][n].points) >= 1
        /\ totalPoints(fnOut[1], Len(fnOut[1])) = Len(fnIn[2])
        /\ fnOut[1] =
              Map(SelectSeq(AsSeq([ c \in 1 .. Len(fnIn[3]) |-> c ]),
                            LAMBDA c : Len(PointsOf(fnIn[2], fnIn[3], c)) >= 1),
                  LAMBDA c : [ centroid |-> fnIn[3][c],
                               points |-> PointsOf(fnIn[2], fnIn[3], c) ])

\* a centroid occurs twice, a cluster came out empty and was dropped, two were kept
C17_TieAndEmpty ==
    /\ AssignApplied
    /\ Len(fnIn[3]) = 3
    /\ fnIn[3][1] = fnIn[3][3]
    /\ Len(fnOut[1]) = 2

MergePassApplied == fnIn # << >> /\ fnIn[1] = "mergePass" /\ fnOut # << >>

\* the points of the input clusters whose indices are in g, in input order
RECURSIVE GroupPoints(_, _)
GroupPoints(clusters, g) ==
    IF g = {} THEN << >>
    ELSE clusters[MinOfSet(g)].points \o GroupPoints(clusters, g \ { MinOfSet(g) })

\* the current centroid of the merged cluster made of the input clusters in g: that of
\* the input cluster while it is alone, the mean of the members once it has absorbed one
GroupCentroid(clusters, g) ==
    IF Cardinality(g) = 1 THEN clusters[MinOfSet(g)].centroid
    ELSE MeanLab(Map(GroupPoints(clusters, g), LAMBDA p : p.lab))

\* the merged clusters after the first n input clusters, each as the set of the indices
\* of the input clusters it holds: cluster n joins the first whose current centroid is
\* nearer than 10, else it comes last on its own
RECURSIVE Greedy(_, _)
Greedy(clusters, n) ==
    IF n = 0 THEN << >>
    ELSE LET before == Greedy(clusters, n - 1)
             near == { j \in 1 .. Len(before) :
                         deltaE00(clusters[n].centroid,
                                  GroupCentroid(clusters, before[j])) < mergeDeltaE00 }
         IN  IF near = {} THEN Append(before, { n })
             ELSE [ before EXCEPT ![MinOfSet(near)] = @ \cup { n } ]

\* the places <<cluster, index>> of the points of a list of clusters
Places(clusters) ==
    UNION { { << c, i >> : i \in 1 .. Len(clusters[c].points) } : c \in 1 .. Len(clusters) }

\* C18: the merge pass takes the clusters in input order; each is absorbed into the
\* first merged cluster accepted so far whose current, recomputed, centroid is nearer
\* than 10 in Delta E 2000, else it starts a new merged cluster; the merged clusters hold
\* every input point exactly once, and they are never more than the input clusters
C18_GreedyMerge ==
    MergePassApplied =>
        LET clusters == fnIn[2]
            out == fnOut[1]
            groups == Greedy(clusters, Len(clusters))
        IN  /\ Len(out) = Len(groups)
            /\ \A j \in 1 .. Len(groups) :
                   /\ out[j].points = GroupPoints(clusters, groups[j])
                   /\ out[j].centroid = GroupCentroid(clusters, groups[j])
            /\ \A pl \in Places(clusters) :
                   Cardinality({ po \in Places(out) :
                                   out[po[1]].points[po[2]] =
                                       clusters[pl[1]].points[pl[2]] }) = 1
            /\ Cardinality(Places(out)) = Cardinality(Places(clusters))
            /\ Len(out) <= Len(clusters)

\* three clusters end as one: the third is not nearer than 10 to the first as it came
\* in, and is nearer than 10 to the mean of the first and the second
C18_AbsorbedByRecomputed ==
    /\ MergePassApplied
    /\ Len(fnIn[2]) = 3
    /\ Len(fnOut[1]) = 1
    /\ deltaE00(fnIn[2][3].centroid, fnIn[2][1].centroid) >= mergeDeltaE00
    /\ deltaE00(fnIn[2][3].centroid,
                withMeanCentroid(fnIn[2][1].points \o fnIn[2][2].points).centroid)
           < mergeDeltaE00

MergeFilterApplied ==
    fnIn # << >> /\ fnIn[1] = "mergeAndFilterClusters" /\ fnOut # << >>

\* C19: the clusters that mergeAndFilterClusters returns are perceptually distinct: no
\* two of them have centroids nearer than the merge threshold of 10 in Delta E 2000
C19_SurvivorsDistinct ==
    MergeFilterApplied =>
        \A i \in 1 .. Len(fnOut[1]) : \A j \in 1 .. Len(fnOut[1]) :
            i # j => deltaE00(fnOut[1][i].centroid, fnOut[1][j].centroid) >= mergeDeltaE00

\* the clusters returned are distinct whenever none of them absorbed another
C19_DistinctUnlessAbsorbed ==
    MergeFilterApplied /\ Len(fnOut[1]) = Len(fnIn[2]) =>
        \A i \in 1 .. Len(fnOut[1]) : \A j \in 1 .. Len(fnOut[1]) :
            i # j => deltaE00(fnOut[1][i].centroid, fnOut[1][j].centroid) >= mergeDeltaE00

\* the k-means++ initialisation is over and the Lloyd loop has not run yet
Seeded == pc = "lloyd" /\ iter = 0

\* during and right after the initialisation every centroid is the Lab value of one of
\* the input points; there are fewer than k of them during it and exactly k after it
SeedsOfInput ==
    /\ pc = "seed" \/ Seeded =>
           \A j \in 1 .. Len(centroids) :
               \E i \in 1 .. Len(labPoints) : centroids[j] = labPoints[i].lab
    /\ pc = "seed" => Len(labPoints) >= 1 /\ Len(centroids) < k
    /\ Seeded => Len(centroids) = k

\* C20: the k-means++ initialisation always finishes with exactly k centroids, each the
\* Lab value of one of the input points, for every number N >= 1 of points and every
\* random draw, also for N < k, where centroids coincide
C20_SeedingFinishes ==
    /\ []SeedsOfInput
    /\ (pc = "seed") ~> Seeded

\* fewer points than k: the initialisation ended with k centroids, two of them equal
C20_FewerPointsThanK ==
    /\ Seeded
    /\ Len(labPoints) < k
    /\ Len(centroids) = k
    /\ \E i \in 1 .. k : \E j \in 1 .. k : i # j /\ centroids[i] = centroids[j]

LloydApplied == fnIn # << >> /\ fnIn[1] = "kMeansLab" /\ fnOut # << >>

\* the points assigned to centroid c, in input order
MembersOf(labs, cs, c) == SelectSeq(labs, LAMBDA p : NearestIs(p, cs, c))

\* the centroids after one iteration: the mean of its members for a cluster that has
\* some, the previous centroid for an empty one
Recomputed(labs, cs) ==
    AsSeq([ c \in 1 .. Len(cs) |->
              IF Len(MembersOf(labs, cs, c)) = 0 THEN cs[c]
              ELSE MeanLab(MembersOf(labs, cs, c)) ])

\* no non-empty cluster's centroid moves by more than 0.5 in the iteration from cs
Settles(labs, cs) ==
    \A c \in 1 .. Len(cs) :
        Len(MembersOf(labs, cs, c)) >= 1 =>
            euclideanLabSq(Recomputed(labs, cs)[c], cs[c]) <= 2500

\* the centroids after n iterations
RECURSIVE AfterIterations(_, _, _)
AfterIterations(labs, seeds, n) ==
    IF n = 0 THEN seeds ELSE Recomputed(labs, AfterIterations(labs, seeds, n - 1))

\* C21: the Lloyd loop runs at most maxIterations iterations, 20 in extractColors, and
\* stops after the first in which no non-empty cluster's centroid moves by more than
\* 0.5; a cluster that receives no points keeps its centroid; k centroids are returned
C21_LloydLoop ==
    LloydApplied =>
        LET labs == fnIn[2]
            seeds == fnIn[3]
            cs == fnOut[1][1]
            n == fnOut[1][2]
        IN  /\ n <= fnIn[4] /\ fnIn[4] <= 20
            /\ n >= 1
            /\ cs = AfterIterations(labs, seeds, n)
            /\ \A m \in 0 .. n - 2 : ~Settles(labs, AfterIterations(labs, seeds, m))
            /\ n < fnIn[4] => Settles(labs, AfterIterations(labs, seeds, n - 1))
            /\ Len(cs) = Len(seeds)
            /\ Len(cs) = initialK(Len(labs))
            /\ \A c \in 1 .. Len(cs) :
                   (\A m \in 0 .. n - 1 :
                        Len(MembersOf(labs, AfterIterations(labs, seeds, m), c)) = 0)
                       => cs[c] = seeds[c]

\* the loop stopped after its second iteration, before the 20th: the first moved a
\* centroid, the second none, and a cluster without points kept its seed
C21_StoppedEarly ==
    /\ LloydApplied
    /\ fnIn[4] = maxIterations
    /\ fnOut[1][2] = 2
    /\ ~Settles(fnIn[2], fnIn[3])
    /\ \E c \in 1 .. Len(fnIn[3]) :
           /\ Len(MembersOf(fnIn[2], fnIn[3], c)) = 0
           /\ Len(MembersOf(fnIn[2], fnOut[1][1], c)) = 0
           /\ fnOut[1][1][c] = fnIn[3][c]

\* the loop stopped at maxIterations although the last iteration moved a centroid
C21_StoppedByLimit ==
    /\ LloydApplied
    /\ fnOut[1][2] = fnIn[4]
    /\ ~Settles(fnIn[2], AfterIterations(fnIn[2], fnIn[3], fnIn[4] - 1))

InitialKApplied == fnIn # << >> /\ fnIn[1] = "initialK" /\ fnOut # << >>

\* r is the square root of n rounded to the nearest integer: r - 1/2 <= sqrt(n) < r + 1/2
RoundedRoot(n, r) == (2 * r - 1) * (2 * r - 1) <= 4 * n /\ 4 * n < (2 * r + 1) * (2 * r + 1)

\* C22: the cluster count k is round(sqrt(N)) clamped to 4 .. 16, N the number of unique
\* quantized colours; 4 <= k <= 16 for every N >= 1, also for N < 4
C22_ClampedRoundedRoot ==
    InitialKApplied =>
        /\ 4 <= fnOut[1] /\ fnOut[1] <= 16
        /\ \E r \in 1 .. fnIn[2] :
               /\ RoundedRoot(fnIn[2], r)
               /\ fnOut[1] = (IF r < 4 THEN 4 ELSE IF r > 16 THEN 16 ELSE r)

\* fewer than 4 colours give k = 4
C22_FewColours == InitialKApplied /\ fnIn[2] < 4 /\ fnOut[1] = 4

\* 31 colours give k = 6: the root 5.57 is rounded up, and not clamped
C22_RoundedUp == InitialKApplied /\ fnIn[2] = 31 /\ fnOut[1] = 6

StrideApplied == fnIn # << >> /\ fnIn[1] = "chooseStride" /\ fnOut # << >>

\* C23: chooseStride returns 6 when width x height > 800,000, otherwise 4 when
\* > 400,000, otherwise 3 when > 150,000, otherwise 2, for all positive widths and heights
C23_StrideByPixelCount ==
    StrideApplied =>
        /\ fnOut[1] \in { 2, 3, 4, 6 }
        /\ fnOut[1] = 6 <=> fnIn[2] * fnIn[3] > 800000
        /\ fnOut[1] = 4 <=> fnIn[2] * fnIn[3] > 400000 /\ fnIn[2] * fnIn[3] <= 800000
        /\ fnOut[1] = 3 <=> fnIn[2] * fnIn[3] > 150000 /\ fnIn[2] * fnIn[3] <= 400000
        /\ fnOut[1] = 2 <=> fnIn[2] * fnIn[3] <= 150000

\* a count of exactly 400,000 pixels takes stride 3, one more stride 4
C23_OnThreshold ==
    /\ StrideApplied
    /\ fnIn[2] * fnIn[3] = 400000
    /\ fnOut[1] = 3

\* a call of extractColors has started and not settled
Unsettled(c) == calls[c].status \in { "pending", "running" }

\* C24: isLoading is true whenever at least one extractColors call has started and not
\* yet settled, also when several calls overlap
C24_LoadingWhileUnsettled ==
    (\E c \in 1 .. Len(calls) : Unsettled(c)) => isLoading

\* isLoading is true while the only call that has started has not settled
C24_LoadingWhileOneUnsettled ==
    Len(calls) = 1 /\ Unsettled(1) => isLoading

\* every extraction started has settled, and the last image selected gave a palette
LatestResolved ==
    /\ calls # << >>
    /\ \A c \in 1 .. Len(calls) : Settled(c)
    /\ calls[Len(calls)].status = "resolved"

\* C25: once every extraction started has settled, the palette Home shows is the one
\* extracted from the image selected last, whatever the order the extractions end in
C25_ShowsLatestPalette ==
    LatestResolved => colors = calls[Len(calls)].result

\* the palette shown is the one of the extraction that resolved last
C25_ShowsLastResolved ==
    LatestResolved /\ pc = "done" => colors = calls[active].result

\* the entries of the history made from the file of call c
EntriesOf(c) ==
    { i \in 1 .. Len(history) : history[i].imageDataUrl = << thumbnailUrl(calls[c].file) >> }

\* C27: the history gains an entry only from an extraction that resolved with at least
\* one colour, and at most one for each image selected; a failed extraction adds none
C27_SavedOnlyWhenExtracted ==
    /\ \A i \in 1 .. Len(history) :
           \E c \in 1 .. Len(calls) :
               /\ calls[c].status = "resolved"
               /\ Len(calls[c].result) >= 1
               /\ history[i].colors = calls[c].result
               /\ i \in EntriesOf(c)
    /\ \A c \in 1 .. Len(calls) :
           /\ Cardinality(EntriesOf(c)) <= 1
           /\ calls[c].status # "resolved" => EntriesOf(c) = {}
    /\ Len(history) = ops

\* two images were selected and all is over: one extraction failed, the other gave
\* the one entry of the history
C27_OneSavedOneFailed ==
    /\ Len(calls) = 2
    /\ thumbs = {}
    /\ \E c \in 1 .. 2 : calls[c].status = "rejected" /\ EntriesOf(c) = {}
    /\ \E c \in 1 .. 2 : calls[c].status = "resolved" /\ Cardinality(EntriesOf(c)) = 1
    /\ Len(history) = 1

\* every entry was saved no earlier than the entries behind it
NewestFirst ==
    \A i \in 1 .. Len(history) : \A j \in 1 .. Len(history) :
        i < j => history[i].timestamp >= history[j].timestamp

\* a call of savePalette puts the new entry in front and keeps the others in order,
\* all of them below 20 entries and all but the oldest at 20
SaveStep ==
    SaveCall =>
        /\ Len(history') >= 1
        /\ history'[1].timestamp = now'
        /\ IF Len(history) < 20
           THEN Tail(history') = history
           ELSE Tail(history') = SubSeq(history, 1, Len(history) - 1)

\* C26: after any calls of savePalette, deletePalette and clearHistory from a history of
\* at most 20 entries, the history holds at most 20 entries, newest first, and a save
\* when it holds 20 drops exactly the oldest
C26_AtMostTwentyNewestFirst ==
    /\ [](Len(history) <= 20 /\ NewestFirst)
    /\ [][SaveStep]_vars

\* one palette was saved to the history of 20 entries stored before: 20 entries are
\* held, the new one first, and the oldest of before, saved at millisecond 1, is gone
C26_OldestDropped ==
    /\ ops = 1
    /\ Len(history) = 20
    /\ history[1].timestamp = now
    /\ history[1].colors = << colorOf(<< 0, 200, 0 >>) >>
    /\ \A i \in 1 .. 20 : history[i].timestamp # 1
    /\ history[20].timestamp = 2

\* C28: as long as every localStorage write has succeeded, the history persisted under
\* the key equals the history in memory, and the key is absent after clearHistory
C28_StoredEqualsHistory ==
    /\ [](~writeFailed => loadHistory(stored) = history)
    /\ [][ClearCall /\ ~writeFailed' => stored' = Absent]_vars

\* after three calls, all written, the key holds a history whose entries are with and
\* without thumbnail
C28_StoredAfterCalls ==
    /\ ops = 3
    /\ ~writeFailed
    /\ stored # Absent
    /\ \E i \in 1 .. Len(history) : history[i].imageDataUrl = Undefined
    /\ \E i \in 1 .. Len(history) : history[i].imageDataUrl # Undefined
    /\ history[1].timestamp = now

\* the positions of prev whose entry has another id than id
KeptPositions(id, prev) == { i \in 1 .. Len(prev) : prev[i].id # id }

\* a call of deletePalette(id) leaves the entries of another id, in their order, and
\* no other
DeleteStep ==
    \A id \in DeleteIds(history) :
        DeleteCall(id) =>
            /\ Len(history') = Cardinality(KeptPositions(id, history))
            /\ \A i \in KeptPositions(id, history) :
                   history'[Cardinality({ j \in KeptPositions(id, history) : j <= i })]
                       = history[i]
            /\ (\A i \in 1 .. Len(history) : history[i].id # id) => history' = history

\* C29: deletePalette(id) removes exactly the entries whose id is id and leaves every
\* other entry and their order unchanged; an id that is not present changes nothing
C29_DeleteRemovesExactly == [][DeleteStep]_vars

\* the one call made was a deletePalette whose write failed: the key still holds the
\* history of before, and the two entries of one id that it starts with are gone
C29_TwinsDeleted ==
    /\ ops = 1
    /\ writeFailed
    /\ stored # Absent
    /\ Len(history) >= 1
    /\ Len(parse(stored[1])) = Len(history) + 2
    /\ parse(stored[1])[1].id = parse(stored[1])[2].id
    /\ history = SubSeq(parse(stored[1]), 3, Len(history) + 2)

-----------------------------------------------------------------------------
(* deltaE00 as a distance                                                  *)

DeltaApplied == fnIn # << >> /\ fnIn[1] = "deltaE00" /\ fnOut # << >>

\* the hue angle deltaE00 gives a Lab point (the sign of a' is the sign of a)
HueOf(lab) == hpF[lab[3], lab[2]]

\* C30: the colour difference of a Lab point from itself is 0, and the
\* difference of p from q equals the difference of q from p
C30_ZeroOnItselfAndSymmetric ==
    DeltaApplied =>
        /\ fnIn[2] = fnIn[3] => fnOut[1] = 0
        /\ fnOut[1] = deltaE00(fnIn[3], fnIn[2])

\* two different chromatic points whose hues lie more than 180 degrees apart,
\* so that the hue difference and the mean hue both wrap around
C30_HuesWrapAround ==
    /\ DeltaApplied
    /\ Hyp[fnIn[2][2], fnIn[2][3]] # Hyp[fnIn[3][2], fnIn[3][3]]
    /\ HueOf(fnIn[2]) - HueOf(fnIn[3]) > 180000
    /\ fnOut[1] > 0

=============================================================================
